---- MODULE Spec2Model ----
(***************************************************************************)
(* The tick-to-order pipeline of the sniper bot:                           *)
(*   - RsiBollingerStrategy (strategies/scalper.rs): candle aggregation,   *)
(*     warm-up gate, entry / trailing-stop / hard-stop decisions;          *)
(*   - TradingEngine (core/engine.rs): the decision loop, order sizing,    *)
(*     paper and live execution, persistence of the open position;         *)
(*   - BinanceClient (connectors/binance.rs): place_order's status         *)
(*     classification, the subscribe_ticker producer task and the          *)
(*     normalize_price / normalize_quantity helpers.                       *)
(*                                                                         *)
(* Numbers.  rust_decimal::Decimal values are exact rationals <<n, d>>     *)
(* (d > 0) inside the operators.  In the state a price is an integer count *)
(* of tenths (1000 is 100.0) and a quantity an integer count of            *)
(* thousandths (100 is 0.100).  The f64 indicator values are integers in   *)
(* the same units (rsi in whole points, atr and the Bollinger band in      *)
(* tenths).  Option<T> is <<>> (None) or <<x>> (Some(x)).                  *)
(*                                                                         *)
(* The ta crate's indicators are outside the repository: what rsi.next,    *)
(* atr.next and bb.next return for a closed candle is an input.  Tick      *)
(* prices are positive.                                                    *)
(*                                                                         *)
(* Specifications.  Spec is the decision loop with the strategy;           *)
(* SpecStream the producer task and the tick channel; SpecSizing           *)
(* handle_signal and place_order on the Advice of any strategy;            *)
(* SpecCandles the candle logic on ticks with non-decreasing timestamps;   *)
(* SpecPrecision the two functions of utils/precision.rs beside the        *)
(* client's helpers of the same names.  SpecStreamFair is SpecStream under *)
(* fair scheduling and a venue that is reachable again and again.          *)
(* SpecLoop is the decision loop after the warm-up together                *)
(* with the terminal UI that drains or leaves the UI channel, and with a   *)
(* tick source that may end; the other specifications have the UI channel  *)
(* with nobody reading it and a tick channel that is never closed.  SpecObi *)
(* is on_tick after the warm-up on ticks of any book quantities, SpecLate   *)
(* the candle logic on ticks whose timestamps may go back.                 *)
(***************************************************************************)
EXTENDS Integers, Sequences, FiniteSets, TLC

VARIABLES
    pc,           \* position of TradingEngine::run: "start", "recv", "order", "done"
    live_mode,    \* TradingEngine.live_mode
    config,       \* TradingEngine.config (AppConfig with its StrategyConfig)
    strategy,     \* TradingEngine.strategy: the RsiBollingerStrategy fields
    state_file,   \* content of bot_state.json
    inflight,     \* the place_order call the loop is awaiting (Option)
    last_eval,    \* history: the last on_tick evaluation (Option)
    last_order,   \* history: the place_order call that returned in the last step (Option)
    last_write,   \* history: the save_state call of the last step (Option)
    ui,           \* the UI channel (mpsc::channel::<UiEvent>): queued events, closed or not
    last_ui,      \* history: the results of the send_ui_event calls of the last tick
    last_input,   \* history, loop specification: the inputs of the last tick step (Option)
    ws,           \* position of the task subscribe_ticker spawns: "connect", "read", "sleep";
                  \* "dropped" when the tick channel has lost its sender
    chan,         \* the tick channel (mpsc::channel::<Ticker>): the queued tickers
    next_event,   \* event_time of the next book-ticker event of the venue
    last_offer,   \* history: the try_send of the last step (Option)
    failures,     \* history: the kinds of failure the task has come through
    last_msg,     \* history: the last message read on the current connection (Option)
    bucket,       \* history, candle specification: the ticks of the current bucket
    closed,       \* history, candle specification: the last close_candle call (Option)
    calc          \* history, precision specification: the last normalize_* call (Option)

vars == <<pc, live_mode, config, strategy, state_file, inflight, last_eval,
          last_order, last_write, ui, last_ui, last_input, ws, chan, next_event, last_offer, failures, last_msg,
          bucket, closed, calc>>

engine_vars == <<pc, live_mode, config, strategy, state_file, inflight,
                 last_eval, last_order, last_write>>

ui_vars == <<ui, last_ui, last_input>>

stream_vars == <<ws, chan, next_event, last_offer, failures, last_msg>>

candle_vars == <<bucket, closed>>

precision_vars == <<calc>>

----------------------------------------------------------------------------
(* Option<T> *)

None == <<>>

Some(x) == <<x>>

IsSome(o) == o # <<>>

Unwrap(o) == o[1]

----------------------------------------------------------------------------
(* Decimal arithmetic, exact on rationals <<n, d>> with d > 0; a value may   *)
(* have several representations, so Decimals are compared with DecLt, DecEq *)
(* or after conversion, never as tuples                                     *)

Dec(n, d) == <<n, d>>

RECURSIVE Gcd(_, _)
\* the greatest common divisor of two naturals, 1 for two zeros: the product
\* and the quotient below cancel common factors before they multiply, which
\* leaves the value as it is and keeps numerators and denominators small
Gcd(m, n) == IF n = 0 THEN (IF m = 0 THEN 1 ELSE m) ELSE Gcd(n, m % n)

Abs(n) == IF n < 0 THEN -n ELSE n

DecMul(a, b) ==
    LET g1 == Gcd(Abs(a[1]), b[2])
        g2 == Gcd(Abs(b[1]), a[2])
    IN  <<(a[1] \div g1) * (b[1] \div g2), (a[2] \div g2) * (b[2] \div g1)>>

\* b is positive
DecDiv(a, b) ==
    LET g1 == Gcd(Abs(a[1]), b[1])
        g2 == Gcd(b[2], a[2])
    IN  <<(a[1] \div g1) * (b[2] \div g2), (a[2] \div g2) * (b[1] \div g1)>>

DecSub(a, b) == <<a[1] * b[2] - b[1] * a[2], a[2] * b[2]>>

DecAdd(a, b) == <<a[1] * b[2] + b[1] * a[2], a[2] * b[2]>>

DecLt(a, b) == a[1] * b[2] < b[1] * a[2]

DecEq(a, b) == a[1] * b[2] = b[1] * a[2]

DecIsZero(a) == a[1] = 0

\* Decimal::floor
DecFloor(a) == <<a[1] \div a[2], 1>>

\* Decimal::round: to the nearest integer, a tie to the even neighbour
DecRound(a) ==
    LET lo  == a[1] \div a[2]
        rem == a[1] - lo * a[2]
    IN  IF 2 * rem < a[2] THEN <<lo, 1>>
        ELSE IF 2 * rem > a[2] THEN <<lo + 1, 1>>
        ELSE IF lo % 2 = 0 THEN <<lo, 1>> ELSE <<lo + 1, 1>>

\* Decimal::round_dp(dp): to dp decimal places, a tie to the even neighbour
DecRoundDp(a, dp) == DecDiv(DecRound(DecMul(a, <<10 ^ dp, 1>>)), <<10 ^ dp, 1>>)

\* a price held in the state (tenths) as a Decimal, and back
PriceDec(p) == <<p, 10>>

DecPrice(a) == (a[1] * 10) \div a[2]

\* a quantity held in the state (thousandths) as a Decimal, and back
QtyDec(q) == <<q, 1000>>

DecQty(a) == (a[1] * 1000) \div a[2]

----------------------------------------------------------------------------
(* types.rs *)

Buy == "Buy"

Sell == "Sell"

Hold == [kind |-> "Hold", side |-> "-", price |-> 0]

StateChanged == [kind |-> "StateChanged", side |-> "-", price |-> 0]

Advice(side, price) == [kind |-> "Advice", side |-> side, price |-> price]

Position(symbol, quantity, entry_price, highest_price) ==
    [symbol |-> symbol, quantity |-> quantity, entry_price |-> entry_price,
     unrealized_pnl |-> 0, highest_price |-> highest_price]

----------------------------------------------------------------------------
(* utils/precision.rs *)

\* fault: the quantity rounded to the nearest multiple of the step
normalize_quantity_nearest(amount, step_size) ==
    IF DecIsZero(step_size) THEN amount
    ELSE DecMul(DecRound(DecDiv(amount, step_size)), step_size)

normalize_quantity(amount, step_size) ==
    IF DecIsZero(step_size) THEN amount
    ELSE DecMul(DecFloor(DecDiv(amount, step_size)), step_size)

\* fault: the price rounded down to a multiple of the tick size
normalize_price_down(price, tick_size) ==
    IF DecIsZero(tick_size) THEN price
    ELSE DecMul(DecFloor(DecDiv(price, tick_size)), tick_size)

normalize_price(price, tick_size) ==
    IF DecIsZero(tick_size) THEN price
    ELSE DecMul(DecRound(DecDiv(price, tick_size)), tick_size)

----------------------------------------------------------------------------
(* connectors/binance.rs: the ExecutionHandler helpers *)

\* BinanceClient::normalize_price; client holds tick_size and step_size
BinanceClient_normalize_price(client, price) ==
    IF DecIsZero(client.tick_size) THEN DecRoundDp(price, 2)
    ELSE DecMul(DecFloor(DecDiv(price, client.tick_size)), client.tick_size)

\* BinanceClient::normalize_quantity
BinanceClient_normalize_quantity(client, quantity) ==
    IF DecIsZero(client.step_size) THEN DecRoundDp(quantity, 3)
    ELSE DecMul(DecFloor(DecDiv(quantity, client.step_size)), client.step_size)

----------------------------------------------------------------------------
(* strategies/scalper.rs *)

warmup_period == 50

\* fault: a callback of 2% instead of 0.2%
trailing_callback_2pct == Dec(2, 100)

trailing_callback == Dec(2, 1000)

CandleBuilder_new(tick) ==
    [open_time |-> (tick.timestamp \div 60000) * 60000,
     open |-> tick.price, high |-> tick.price,
     low |-> tick.price, close |-> tick.price]

\* fault: the candle's low is never lowered
CandleBuilder_update_high_only(candle, tick) ==
    [candle EXCEPT
        !.high  = IF tick.price > candle.high THEN tick.price ELSE candle.high,
        !.close = tick.price]

CandleBuilder_update(candle, tick) ==
    [candle EXCEPT
        !.high  = IF tick.price > candle.high THEN tick.price ELSE candle.high,
        !.low   = IF tick.price < candle.low THEN tick.price ELSE candle.low,
        !.close = tick.price]

\* RsiBollingerStrategy::new
RsiBollingerStrategy_new(symbol, strategy_config) ==
    [symbol            |-> symbol,
     current_candle    |-> None,
     last_rsi_value    |-> 50,
     last_atr_value    |-> 0,
     last_bb_values    |-> None,
     position          |-> None,
     processed_candles |-> 0,
     obi_threshold     |-> strategy_config.obi_threshold,
     min_volatility    |-> strategy_config.min_volatility]

\* ind is what the ta indicators return for the closed candle:
\* rsi.next, atr.next and bb.next (lower, average, upper)
close_candle(s, candle, ind) ==
    [s EXCEPT
        !.last_rsi_value    = ind.rsi,
        !.last_atr_value    = ind.atr,
        !.last_bb_values    = Some(ind.bb),
        !.processed_candles = s.processed_candles + 1]

\* fault: a tick of the current bucket closes the candle too
CandleLogicClosesEveryTick(s, tick, ind) ==
    LET tick_minute_start == (tick.timestamp \div 60000) * 60000
    IN  IF IsSome(s.current_candle)
        THEN LET candle == Unwrap(s.current_candle)
             IN  IF tick_minute_start >= candle.open_time
                 THEN [close_candle(s, candle, ind) EXCEPT
                          !.current_candle = Some(CandleBuilder_new(tick))]
                 ELSE [s EXCEPT
                          !.current_candle = Some(CandleBuilder_update(candle, tick))]
        ELSE [s EXCEPT !.current_candle = Some(CandleBuilder_new(tick))]

\* fault: a tick of any other bucket, an earlier one too, closes the candle
CandleLogicClosesOnLateTick(s, tick, ind) ==
    LET tick_minute_start == (tick.timestamp \div 60000) * 60000
    IN  IF IsSome(s.current_candle)
        THEN LET candle == Unwrap(s.current_candle)
             IN  IF tick_minute_start # candle.open_time
                 THEN [close_candle(s, candle, ind) EXCEPT
                          !.current_candle = Some(CandleBuilder_new(tick))]
                 ELSE [s EXCEPT
                          !.current_candle = Some(CandleBuilder_update(candle, tick))]
        ELSE [s EXCEPT !.current_candle = Some(CandleBuilder_new(tick))]

\* on_tick, step 1: the candle logic
CandleLogic(s, tick, ind) ==
    LET tick_minute_start == (tick.timestamp \div 60000) * 60000
    IN  IF IsSome(s.current_candle)
        THEN LET candle == Unwrap(s.current_candle)
             IN  IF tick_minute_start > candle.open_time
                 THEN [close_candle(s, candle, ind) EXCEPT
                          !.current_candle = Some(CandleBuilder_new(tick))]
                 ELSE [s EXCEPT
                          !.current_candle = Some(CandleBuilder_update(candle, tick))]
        ELSE [s EXCEPT !.current_candle = Some(CandleBuilder_new(tick))]

\* fault: the warm-up gate opens one candle early
WarmingUpOffByOne(s) == s.processed_candles + 1 < warmup_period

\* on_tick, step 2: processed_candles < warmup_period
WarmingUp(s) == s.processed_candles < warmup_period

\* fault: the bid's share of the book instead of the imbalance
ObiBidShare(tick) ==
    LET total_qty == tick.bid_qty + tick.ask_qty
    IN  IF total_qty # 0 THEN Dec(tick.bid_qty, total_qty)
        ELSE Dec(0, 1)

\* on_tick, step 4: the order-book imbalance of the tick
Obi(tick) ==
    LET total_qty == tick.bid_qty + tick.ask_qty
    IN  IF total_qty # 0 THEN Dec(tick.bid_qty - tick.ask_qty, total_qty)
        ELSE Dec(0, 1)

\* fault: the entry logic without the rsi test
EntryLogicWithoutRsi(s, tick, bb_lower) ==
    LET vol_pct == DecDiv(PriceDec(s.last_atr_value), PriceDec(tick.price))
    IN  IF DecLt(vol_pct, Dec(s.min_volatility, 1000)) THEN Hold
        ELSE IF /\ tick.price < bb_lower
                /\ DecLt(Dec(s.obi_threshold, 1000), Obi(tick))
             THEN Advice(Buy, tick.price)
             ELSE Hold

\* on_tick, step 5, position None: volatility filter and entry logic
EntryLogic(s, tick, bb_lower) ==
    LET vol_pct == DecDiv(PriceDec(s.last_atr_value), PriceDec(tick.price))
    IN  IF DecLt(vol_pct, Dec(s.min_volatility, 1000)) THEN Hold
        ELSE IF /\ tick.price < bb_lower
                /\ s.last_rsi_value < 30
                /\ DecLt(Dec(s.obi_threshold, 1000), Obi(tick))
             THEN Advice(Buy, tick.price)
             ELSE Hold

\* fault: highest_price follows every tick
RatchetFollowsPrice(pos, tick) == [pos EXCEPT !.highest_price = tick.price]

\* on_tick, step 5, position Some(pos): the trailing-stop ratchet
Ratchet(pos, tick) ==
    IF tick.price > pos.highest_price
    THEN [pos EXCEPT !.highest_price = tick.price]
    ELSE pos

\* fault: the exits without the hard stop
ExitLogicWithoutHardStop(pos, tick, state_changed) ==
    LET trailing_stop_price ==
            DecMul(PriceDec(pos.highest_price), DecSub(Dec(1, 1), trailing_callback))
    IN  IF DecLt(PriceDec(tick.price), trailing_stop_price) THEN Advice(Sell, tick.price)
        ELSE IF state_changed THEN StateChanged
        ELSE Hold

\* fault: a raised highest_price is reported before the stops are tested
ExitLogicStateChangedFirst(pos, tick, state_changed) ==
    LET trailing_stop_price ==
            DecMul(PriceDec(pos.highest_price), DecSub(Dec(1, 1), trailing_callback))
        hard_stop == DecMul(PriceDec(pos.entry_price), Dec(99, 100))
    IN  IF state_changed THEN StateChanged
        ELSE IF DecLt(PriceDec(tick.price), trailing_stop_price) THEN Advice(Sell, tick.price)
        ELSE IF DecLt(PriceDec(tick.price), hard_stop) THEN Advice(Sell, tick.price)
        ELSE Hold

\* on_tick, step 5, position Some(pos): pos is the position after the ratchet
ExitLogic(pos, tick, state_changed) ==
    LET trailing_stop_price ==
            DecMul(PriceDec(pos.highest_price), DecSub(Dec(1, 1), trailing_callback))
        hard_stop == DecMul(PriceDec(pos.entry_price), Dec(99, 100))
    IN  IF DecLt(PriceDec(tick.price), trailing_stop_price) THEN Advice(Sell, tick.price)
        ELSE IF DecLt(PriceDec(tick.price), hard_stop) THEN Advice(Sell, tick.price)
        ELSE IF state_changed THEN StateChanged
        ELSE Hold

\* fault: an exit Advice clears the Position in on_tick itself
DecideOptimistic(s, tick) ==
    IF WarmingUp(s) THEN [strategy |-> s, signal |-> Hold]
    ELSE IF ~IsSome(s.last_bb_values) THEN [strategy |-> s, signal |-> Hold]
    ELSE IF ~IsSome(s.position)
         THEN [strategy |-> s,
               signal   |-> EntryLogic(s, tick, Unwrap(s.last_bb_values)[1])]
         ELSE LET pos  == Unwrap(s.position)
                  pos1 == Ratchet(pos, tick)
                  sig  == ExitLogic(pos1, tick, pos1 # pos)
              IN  [strategy |-> [s EXCEPT !.position =
                                    IF sig.kind = "Advice" THEN None ELSE Some(pos1)],
                   signal   |-> sig]

\* on_tick, steps 2 to 5, on the strategy as the candle logic left it
Decide(s, tick) ==
    IF WarmingUp(s) THEN [strategy |-> s, signal |-> Hold]
    ELSE IF ~IsSome(s.last_bb_values) THEN [strategy |-> s, signal |-> Hold]
    ELSE IF ~IsSome(s.position)
         THEN [strategy |-> s,
               signal   |-> EntryLogic(s, tick, Unwrap(s.last_bb_values)[1])]
         ELSE LET pos  == Unwrap(s.position)
                  pos1 == Ratchet(pos, tick)
              IN  [strategy |-> [s EXCEPT !.position = Some(pos1)],
                   signal   |-> ExitLogic(pos1, tick, pos1 # pos)]

on_tick(s, tick, ind) == Decide(CandleLogic(s, tick, ind), tick)

update_position(s, position) == [s EXCEPT !.position = position]

get_position(s) == s.position

----------------------------------------------------------------------------
(* connectors/binance.rs: place_order *)

\* fault: the limit order rests on the book
OrderRequestGtc(symbol, side, amount, price) ==
    [symbol |-> symbol, side |-> side, quantity |-> amount, price |-> price,
     type          |-> IF IsSome(price) THEN "LIMIT" ELSE "MARKET",
     timeInForce   |-> IF IsSome(price) THEN Some("GTC") ELSE None]

\* The request place_order builds: a limit price makes a LIMIT IOC order
OrderRequest(symbol, side, amount, price) ==
    [symbol |-> symbol, side |-> side, quantity |-> amount, price |-> price,
     type          |-> IF IsSome(price) THEN "LIMIT" ELSE "MARKET",
     timeInForce   |-> IF IsSome(price) THEN Some("IOC") ELSE None]

\* fault: a partial fill counts as a failure
place_order_filled_only(response) ==
    IF response = "ERROR" THEN [ok |-> FALSE, status |-> response]
    ELSE IF response = "FILLED"
         THEN [ok |-> TRUE, status |-> response]
         ELSE [ok |-> FALSE, status |-> response]

\* fault: every status the venue answers counts as a fill
place_order_any_status(response) ==
    IF response = "ERROR" THEN [ok |-> FALSE, status |-> response]
    ELSE [ok |-> TRUE, status |-> response]

\* The result of place_order for the venue's answer: "ERROR" is a failed
\* send_signed_request (transport, signature, HTTP status), anything else the
\* status of the order in the response
place_order(response) ==
    IF response = "ERROR" THEN [ok |-> FALSE, status |-> response]
    ELSE IF response \in {"FILLED", "PARTIALLY_FILLED"}
         THEN [ok |-> TRUE, status |-> response]
         ELSE [ok |-> FALSE, status |-> response]

----------------------------------------------------------------------------
(* core/engine.rs *)

\* EngineState as bot_state.json holds it; kind is "absent", "malformed" or "valid"
EngineState(position) == [kind |-> "valid", active_position |-> position]

\* events the UI channel holds before try_send returns Full
UiCapacity == 1

\* fault: a full UI channel drops its oldest event for the new one
send_ui_event_drops_oldest(u, event) ==
    IF u.closed THEN [ui |-> u, result |-> "Closed"]
    ELSE IF Len(u.queue) < UiCapacity
    THEN [ui |-> [u EXCEPT !.queue = Append(u.queue, event)], result |-> "Ok"]
    ELSE [ui |-> [u EXCEPT !.queue = Append(Tail(u.queue), event)], result |-> "Full"]

\* send_ui_event: the UI channel after try_send(event) and what try_send
\* returned; the caller gets unit in every case
send_ui_event(u, event) ==
    IF u.closed THEN [ui |-> u, result |-> "Closed"]
    ELSE IF Len(u.queue) < UiCapacity
    THEN [ui |-> [u EXCEPT !.queue = Append(u.queue, event)], result |-> "Ok"]
    ELSE [ui |-> u, result |-> "Full"]

\* the send_ui_event calls of one tick: TickerUpdate in run, and Signal in
\* handle_signal if on_tick returned an Advice
send_ui_events(u, signal) ==
    LET first == send_ui_event(u, "TickerUpdate")
    IN  IF signal.kind = "Advice"
        THEN LET second == send_ui_event(first.ui, "Signal")
             IN  [ui |-> second.ui, results |-> <<first.result, second.result>>]
        ELSE [ui |-> first.ui, results |-> <<first.result>>]

\* fault: the stored position is not restored
load_state_starts_flat(s, file) == s

\* the strategy after load_state: a file that cannot be read or parsed is
\* passed over
load_state(s, file) ==
    IF file.kind = "valid" THEN update_position(s, file.active_position) ELSE s

\* fault: a closed position is not written, the file keeps the open one
save_state_skips_flat(file, position, written) ==
    IF position = None THEN file
    ELSE IF written = "written" THEN EngineState(position)
    ELSE IF written = "truncated" THEN [kind |-> "malformed", active_position |-> None]
    ELSE file

\* What tokio::fs::write does to the file.  It opens the file with create
\* and truncate and then writes the bytes: it succeeds ("written"), fails
\* before the file is opened ("untouched"), or fails after the truncation
\* with none or a part of the bytes in the file ("truncated").
WriteOutcomes == {"written", "untouched", "truncated"}

\* the state file after save_state(position); a proper prefix of the JSON
\* text of an EngineState does not parse
save_state(file, position, written) ==
    IF written = "written" THEN EngineState(position)
    ELSE IF written = "truncated" THEN [kind |-> "malformed", active_position |-> None]
    ELSE file

\* the record of one save_state call
Write(position, written) == Some([position |-> position, outcome |-> written])

\* fault: a minimum notional of 4.5 instead of 5.5
SizingWithLowFloor(cfg, side, current_price) ==
    LET order_usdt     == Dec(cfg.order_size_usdt, 1)
        raw_qty        == DecDiv(order_usdt, PriceDec(current_price))
        step_size      == QtyDec(cfg.symbol_step_size)
        quantity       == normalize_quantity(raw_qty, step_size)
        notional_value == DecMul(quantity, PriceDec(current_price))
        min_notional   == Dec(45, 10)
        tick_size      == PriceDec(cfg.symbol_tick_size)
        slippage_pct   == Dec(1, 1000)
        execution_price_raw ==
            IF side = Buy
            THEN DecMul(PriceDec(current_price), DecAdd(Dec(1, 1), slippage_pct))
            ELSE DecMul(PriceDec(current_price), DecSub(Dec(1, 1), slippage_pct))
    IN  [skipped      |-> DecLt(notional_value, min_notional) \/ DecIsZero(quantity),
         quantity     |-> DecQty(quantity),
         target_price |-> DecPrice(normalize_price(PriceDec(current_price), tick_size)),
         final_price  |-> DecPrice(normalize_price(execution_price_raw, tick_size))]

\* fault: the slippage of a Sell added to the price instead of subtracted
SizingWithBuySlippage(cfg, side, current_price) ==
    LET order_usdt     == Dec(cfg.order_size_usdt, 1)
        raw_qty        == DecDiv(order_usdt, PriceDec(current_price))
        step_size      == QtyDec(cfg.symbol_step_size)
        quantity       == normalize_quantity(raw_qty, step_size)
        notional_value == DecMul(quantity, PriceDec(current_price))
        min_notional   == Dec(55, 10)
        tick_size      == PriceDec(cfg.symbol_tick_size)
        slippage_pct   == Dec(1, 1000)
        execution_price_raw ==
            DecMul(PriceDec(current_price), DecAdd(Dec(1, 1), slippage_pct))
    IN  [skipped      |-> DecLt(notional_value, min_notional) \/ DecIsZero(quantity),
         quantity     |-> DecQty(quantity),
         target_price |-> DecPrice(normalize_price(PriceDec(current_price), tick_size)),
         final_price  |-> DecPrice(normalize_price(execution_price_raw, tick_size))]

\* handle_signal, steps 1 to 4: sizing, the guards and the prices
Sizing(cfg, side, current_price) ==
    LET order_usdt     == Dec(cfg.order_size_usdt, 1)
        raw_qty        == DecDiv(order_usdt, PriceDec(current_price))
        step_size      == QtyDec(cfg.symbol_step_size)
        quantity       == normalize_quantity(raw_qty, step_size)
        notional_value == DecMul(quantity, PriceDec(current_price))
        min_notional   == Dec(55, 10)
        tick_size      == PriceDec(cfg.symbol_tick_size)
        slippage_pct   == Dec(1, 1000)
        execution_price_raw ==
            IF side = Buy
            THEN DecMul(PriceDec(current_price), DecAdd(Dec(1, 1), slippage_pct))
            ELSE DecMul(PriceDec(current_price), DecSub(Dec(1, 1), slippage_pct))
    IN  [skipped      |-> DecLt(notional_value, min_notional) \/ DecIsZero(quantity),
         quantity     |-> DecQty(quantity),
         target_price |-> DecPrice(normalize_price(PriceDec(current_price), tick_size)),
         final_price  |-> DecPrice(normalize_price(execution_price_raw, tick_size))]

\* fault: the paper position starts with a highest_price of zero
PaperPositionWithoutHigh(side, symbol, sz) ==
    IF side = Buy
    THEN Some(Position(symbol, sz.quantity, sz.target_price, 0))
    ELSE None

\* handle_signal, paper mode: the position the simulated fill leaves
PaperPosition(side, symbol, sz) ==
    IF side = Buy
    THEN Some(Position(symbol, sz.quantity, sz.target_price, sz.target_price))
    ELSE None

\* fault: a filled Sell leaves a Position as a filled Buy does
FilledPositionKeptOnSell(order) ==
    Some(Position(order.symbol, order.quantity, Unwrap(order.price), Unwrap(order.price)))

\* handle_signal, live mode, Ok(order): the position the fill leaves
FilledPosition(order) ==
    IF order.side = Buy
    THEN Some(Position(order.symbol, order.quantity,
                       Unwrap(order.price), Unwrap(order.price)))
    ELSE None

\* fault: handle_signal without its guards on the notional value and the
\* quantity
handle_signal_unguarded(s, file, cfg, live, side, current_price, symbol, written) ==
    LET sz == Sizing(cfg, side, current_price)
    IN  IF ~live
        THEN LET fake_pos == PaperPosition(side, symbol, sz)
             IN  [strategy   |-> update_position(s, fake_pos),
                  state_file |-> save_state(file, fake_pos, written),
                  order      |-> None,
                  write      |-> Write(fake_pos, written)]
        ELSE [strategy   |-> s,
              state_file |-> file,
              order      |-> Some(OrderRequest(symbol, side, sz.quantity,
                                               Some(sz.final_price))),
              write      |-> None]

\* fault: the paper fill is applied and the order is submitted as well
handle_signal_orders_on_paper(s, file, cfg, live, side, current_price, symbol, written) ==
    LET sz == Sizing(cfg, side, current_price)
        order == Some(OrderRequest(symbol, side, sz.quantity, Some(sz.final_price)))
    IN  IF sz.skipped
        THEN [strategy |-> s, state_file |-> file, order |-> None, write |-> None]
        ELSE IF ~live
        THEN LET fake_pos == PaperPosition(side, symbol, sz)
             IN  [strategy   |-> update_position(s, fake_pos),
                  state_file |-> save_state(file, fake_pos, written),
                  order      |-> order,
                  write      |-> Write(fake_pos, written)]
        ELSE [strategy |-> s, state_file |-> file, order |-> order, write |-> None]

\* handle_signal up to the place_order call: what it leaves of the strategy
\* and the state file, and the order it submits (None when it returns before
\* then).  written is the outcome of the state file write.
handle_signal(s, file, cfg, live, side, current_price, symbol, written) ==
    LET sz == Sizing(cfg, side, current_price)
    IN  IF sz.skipped
        THEN [strategy |-> s, state_file |-> file, order |-> None, write |-> None]
        ELSE IF ~live
        THEN LET fake_pos == PaperPosition(side, symbol, sz)
             IN  [strategy   |-> update_position(s, fake_pos),
                  state_file |-> save_state(file, fake_pos, written),
                  order      |-> None,
                  write      |-> Write(fake_pos, written)]
        ELSE [strategy   |-> s,
              state_file |-> file,
              order      |-> Some(OrderRequest(symbol, side, sz.quantity,
                                               Some(sz.final_price))),
              write      |-> None]

----------------------------------------------------------------------------
(* Inputs *)

\* candles the model lets close after the warm-up has completed
MaxExtraCandles == 1

Symbol == "BTCUSDT"

\* Ticker.price: 109.7 and 110.0
Prices == {1097, 1100}

\* Ticker.bid_qty and ask_qty: an imbalance of 0.5 and a balanced book
BookQtys == {<<3, 1>>, <<1, 1>>}

\* Ticker.timestamp: a tick of the current candle's minute, a late tick of
\* the minute before it, or a tick of the minute after it
Timestamps(s) ==
    IF IsSome(s.current_candle)
    THEN LET t == Unwrap(s.current_candle).open_time
         IN  {t + 30000, t + 60000 + 59999} \cup (IF t > 0 THEN {t - 1} ELSE {})
    ELSE {30000, 60000 + 59999}

Tickers(s) ==
    {[symbol |-> Symbol, price |-> p, bid_qty |-> q[1], ask_qty |-> q[2],
      timestamp |-> t] : p \in Prices, q \in BookQtys, t \in Timestamps(s)}

\* What rsi.next, atr.next and bb.next return for a closed candle: an entry
\* set-up (for a price below the lower band of 109.9), and the same with the
\* rsi or the atr off
IndicatorOutputs ==
    {[rsi |-> 25, atr |-> 5, bb |-> <<1099, 1110, 1121>>],
     [rsi |-> 50, atr |-> 5, bb |-> <<1099, 1110, 1121>>],
     [rsi |-> 25, atr |-> 1, bb |-> <<1099, 1110, 1121>>]}

\* AppConfig: order_size_usdt in whole USDT, symbol_step_size in thousandths,
\* symbol_tick_size in tenths, the strategy's thresholds in thousandths
Configs ==
    {[symbol |-> Symbol, order_size_usdt |-> b, symbol_step_size |-> 1,
      symbol_tick_size |-> 1,
      strategy |-> [obi_threshold |-> 200, min_volatility |-> 3]] : b \in {10, 5}}

\* bot_state.json when the engine starts
StateFiles ==
    {[kind |-> "absent", active_position |-> None],
     [kind |-> "malformed", active_position |-> None],
     EngineState(None),
     EngineState(Some(Position(Symbol, 100, 1000, 1100))),
     EngineState(Some(Position(Symbol, 100, 1200, 1097)))}

\* what the venue answers to an order
VenueResponses == {"ERROR", "FILLED", "PARTIALLY_FILLED", "EXPIRED"}

----------------------------------------------------------------------------
(* Stream intake: the task BinanceClient::subscribe_ticker spawns *)

\* capacity of the tick channel in the model (the deployed channel holds 100)
ChannelCapacity == 2

\* book-ticker events the model lets the venue deliver
MaxEvents == 5

\* best bid and ask price of a book-ticker event
BookPrices == {<<1096, 1098>>, <<1099, 1101>>}

\* what read.next() yields: a text message that parses as a BookTickerEvent,
\* a message that is not text, a text that does not parse, a read error, or
\* the end of the stream
BookTickerEvents ==
    {[kind |-> "event", best_bid_price |-> b[1], best_ask_price |-> b[2],
      best_bid_qty |-> 3, best_ask_qty |-> 1] : b \in BookPrices}

Messages ==
    BookTickerEvents \cup
    {[kind |-> k, best_bid_price |-> 0, best_ask_price |-> 0,
      best_bid_qty |-> 0, best_ask_qty |-> 0] :
        k \in {"not_text", "unparsable", "read_error", "stream_end"}}

\* the Ticker built from a BookTickerEvent
TickerOf(symbol, event, event_time) ==
    LET mid_price == DecDiv(DecAdd(PriceDec(event.best_bid_price),
                                   PriceDec(event.best_ask_price)), Dec(2, 1))
    IN  [symbol |-> symbol, price |-> DecPrice(mid_price),
         bid_price |-> event.best_bid_price, ask_price |-> event.best_ask_price,
         bid_qty |-> event.best_bid_qty, ask_qty |-> event.best_ask_qty,
         timestamp |-> event_time]

\* fault: a full channel drops its oldest ticker for the new one
try_send_drop_oldest(queue, capacity, ticker) ==
    IF Len(queue) < capacity
    THEN [queue |-> Append(queue, ticker), result |-> "Ok"]
    ELSE [queue |-> Append(Tail(queue), ticker), result |-> "Full"]

\* mpsc::Sender::try_send on a channel of the given capacity
try_send(queue, capacity, ticker) ==
    IF Len(queue) < capacity
    THEN [queue |-> Append(queue, ticker), result |-> "Ok"]
    ELSE [queue |-> queue, result |-> "Full"]

InitStream ==
    /\ ws = "connect"
    /\ chan = <<>>
    /\ next_event = 1
    /\ last_offer = None
    /\ failures = {}
    /\ last_msg = None

\* fault: a connection that cannot be made ends the task
ConnectGivesUp(connected) ==
    /\ ws = "connect"
    /\ ws' = IF connected THEN "read" ELSE "stopped"
    /\ failures' = IF connected THEN failures ELSE failures \cup {"connect"}
    /\ last_offer' = None
    /\ last_msg' = None
    /\ UNCHANGED <<chan, next_event>>
    /\ UNCHANGED engine_vars
    /\ UNCHANGED ui_vars
    /\ UNCHANGED candle_vars
    /\ UNCHANGED precision_vars

\* connect_async returns
Connect(connected) ==
    /\ ws = "connect"
    /\ ws' = IF connected THEN "read" ELSE "sleep"
    /\ failures' = IF connected THEN failures ELSE failures \cup {"connect"}
    /\ last_offer' = None
    /\ last_msg' = None
    /\ UNCHANGED <<chan, next_event>>
    /\ UNCHANGED engine_vars
    /\ UNCHANGED ui_vars
    /\ UNCHANGED candle_vars
    /\ UNCHANGED precision_vars

\* a message that is skipped: not text, or text that is no BookTickerEvent
Skipped == {"not_text", "unparsable"}

\* the record of one message of a connection: its kind, and whether a message
\* was skipped on the connection before it
Message(kind) ==
    [kind |-> kind,
     skipped |-> IsSome(last_msg) /\ (Unwrap(last_msg).skipped
                                       \/ Unwrap(last_msg).kind \in Skipped)]

\* fault: a text that does not parse ends the connection
ReadBreaksOnUnparsable(msg) ==
    /\ ws = "read"
    /\ last_msg' = Some(Message(msg.kind))
    /\ IF msg.kind = "event"
       THEN LET ticker == TickerOf(Symbol, msg, next_event)
                sent   == try_send(chan, ChannelCapacity, ticker)
            IN  /\ next_event <= MaxEvents
                /\ chan' = sent.queue
                /\ next_event' = next_event + 1
                /\ last_offer' = Some([ticker |-> ticker, before |-> chan,
                                       result |-> sent.result])
                /\ ws' = "read"
                /\ UNCHANGED failures
       ELSE /\ ws' = IF msg.kind = "not_text" THEN "read" ELSE "sleep"
            /\ failures' = IF msg.kind \in {"read_error", "stream_end"}
                           THEN failures \cup {msg.kind} ELSE failures
            /\ last_offer' = None
            /\ UNCHANGED <<chan, next_event>>
    /\ UNCHANGED engine_vars
    /\ UNCHANGED ui_vars
    /\ UNCHANGED candle_vars
    /\ UNCHANGED precision_vars

\* read.next() returns and the loop body handles the message
Read(msg) ==
    /\ ws = "read"
    /\ last_msg' = Some(Message(msg.kind))
    /\ IF msg.kind = "event"
       THEN LET ticker == TickerOf(Symbol, msg, next_event)
                sent   == try_send(chan, ChannelCapacity, ticker)
            IN  /\ next_event <= MaxEvents
                /\ chan' = sent.queue
                /\ next_event' = next_event + 1
                /\ last_offer' = Some([ticker |-> ticker, before |-> chan,
                                       result |-> sent.result])
                /\ ws' = "read"
                /\ UNCHANGED failures
       ELSE /\ ws' = IF msg.kind \in {"read_error", "stream_end"} THEN "sleep" ELSE "read"
            /\ failures' = IF msg.kind \in {"read_error", "stream_end"}
                           THEN failures \cup {msg.kind} ELSE failures
            /\ last_offer' = None
            /\ UNCHANGED <<chan, next_event>>
    /\ UNCHANGED engine_vars
    /\ UNCHANGED ui_vars
    /\ UNCHANGED candle_vars
    /\ UNCHANGED precision_vars

\* tokio::time::sleep(5 s) returns
Sleep ==
    /\ ws = "sleep"
    /\ ws' = "connect"
    /\ last_offer' = None
    /\ last_msg' = None
    /\ UNCHANGED <<chan, next_event, failures>>
    /\ UNCHANGED engine_vars
    /\ UNCHANGED ui_vars
    /\ UNCHANGED candle_vars
    /\ UNCHANGED precision_vars

\* the decision loop's ticker_receiver.recv() takes the oldest ticker
Recv ==
    /\ chan # <<>>
    /\ chan' = Tail(chan)
    /\ last_offer' = None
    /\ UNCHANGED <<ws, next_event, failures, last_msg>>
    /\ UNCHANGED engine_vars
    /\ UNCHANGED ui_vars
    /\ UNCHANGED candle_vars
    /\ UNCHANGED precision_vars

ConnectReturns == \E connected \in BOOLEAN : Connect(connected)

ReadReturns == \E msg \in Messages : Read(msg)

NextStream == ConnectReturns \/ ReadReturns \/ Sleep \/ Recv

----------------------------------------------------------------------------
(* The decision loop: TradingEngine::run *)

InitEngine ==
    /\ pc = "start"
    /\ live_mode \in BOOLEAN
    /\ config \in Configs
    /\ strategy = RsiBollingerStrategy_new(config.symbol, config.strategy)
    /\ state_file \in StateFiles
    /\ inflight = None
    /\ last_eval = None
    /\ last_order = None
    /\ last_write = None

\* no tick has been folded into a candle, no normalize_* call recorded
InitCandleLog ==
    /\ bucket = <<>>
    /\ closed = None
    /\ calc = None

\* the UI channel is open and empty
InitUi ==
    /\ ui = [queue |-> <<>>, closed |-> FALSE]
    /\ last_ui = <<>>
    /\ last_input = None

Init == InitEngine /\ InitStream /\ InitCandleLog /\ InitUi

\* run: load_state and strategy.init
Startup ==
    /\ pc = "start"
    /\ strategy' = load_state(strategy, state_file)
    /\ pc' = "recv"
    /\ UNCHANGED <<live_mode, config, state_file, inflight, last_eval, last_order,
                   last_write, ui, last_ui, last_input>>
    /\ UNCHANGED stream_vars
    /\ UNCHANGED candle_vars
    /\ UNCHANGED precision_vars

\* The record of one on_tick call: the tick, the position before and after
\* the call, the signal, and the state file as processing the tick left it
Evaluation(tick, before, r, file) ==
    [price |-> tick.price, bid_qty |-> tick.bid_qty, ask_qty |-> tick.ask_qty,
     before |-> before.position, after |-> r.strategy.position,
     signal |-> r.signal, file |-> file]

\* fault: the next tick is taken while place_order is still awaited
CanReceiveWhileOrdering == pc \in {"recv", "order"}

\* run: the loop takes the next tick only when the work on the tick before
\* it, handle_signal included, has returned
CanReceive == pc = "recv"

\* run: one tick received and processed, up to the place_order call if the
\* tick leads to one.  ind is what the ta indicators return if the tick
\* closes a candle, written the outcome of the state file write.
ProcessTick(tick, ind, written) ==
    LET r == on_tick(strategy, tick, ind)
    IN  /\ CanReceive
        /\ r.strategy.processed_candles <= warmup_period + MaxExtraCandles
        /\ last_order' = None
        /\ IF r.signal.kind = "Advice"
           THEN LET h == handle_signal(r.strategy, state_file, config, live_mode,
                                       r.signal.side, r.signal.price, tick.symbol,
                                       written)
                IN  /\ strategy' = h.strategy
                    /\ state_file' = h.state_file
                    /\ inflight' = h.order
                    /\ last_write' = h.write
                    /\ pc' = IF IsSome(h.order) THEN "order" ELSE "recv"
           ELSE IF r.signal.kind = "StateChanged"
           THEN /\ strategy' = r.strategy
                /\ state_file' = save_state(state_file, get_position(r.strategy), written)
                /\ last_write' = Write(get_position(r.strategy), written)
                /\ UNCHANGED <<pc, inflight>>
           ELSE /\ strategy' = r.strategy
                /\ last_write' = None
                /\ UNCHANGED <<pc, state_file, inflight>>
        /\ last_eval' = Some(Evaluation(tick, strategy, r, state_file'))
        /\ ui' = send_ui_events(ui, r.signal).ui
        /\ last_ui' = send_ui_events(ui, r.signal).results
        /\ UNCHANGED <<live_mode, config>>
        /\ UNCHANGED stream_vars

\* fault: the Position is updated whatever place_order returned
OrderOutcomeOptimistic(s, file, order, result, written) ==
    [strategy   |-> update_position(s, FilledPosition(order)),
     state_file |-> save_state(file, FilledPosition(order), written),
     write      |-> Write(FilledPosition(order), written)]

\* fault: a fill whose state file write fails is not applied to the strategy
OrderOutcomeUndoneByFailedWrite(s, file, order, result, written) ==
    IF result.ok
    THEN [strategy   |-> IF written = "written"
                         THEN update_position(s, FilledPosition(order)) ELSE s,
          state_file |-> save_state(file, FilledPosition(order), written),
          write      |-> Write(FilledPosition(order), written)]
    ELSE [strategy |-> s, state_file |-> file, write |-> None]

\* fault: only a complete fill is applied, a partial fill is passed over
OrderOutcomePartialIgnored(s, file, order, result, written) ==
    IF result.ok /\ result.status = "FILLED"
    THEN [strategy   |-> update_position(s, FilledPosition(order)),
          state_file |-> save_state(file, FilledPosition(order), written),
          write      |-> Write(FilledPosition(order), written)]
    ELSE [strategy |-> s, state_file |-> file, write |-> None]

\* handle_signal, live mode: the match on place_order's result
OrderOutcome(s, file, order, result, written) ==
    IF result.ok
    THEN [strategy   |-> update_position(s, FilledPosition(order)),
          state_file |-> save_state(file, FilledPosition(order), written),
          write      |-> Write(FilledPosition(order), written)]
    ELSE [strategy |-> s, state_file |-> file, write |-> None]

\* fault: the error of place_order is propagated and ends run
OrderReturnsOrFails(response, written) ==
    /\ pc = "order"
    /\ LET order  == Unwrap(inflight)
           result == place_order(response)
           out    == OrderOutcome(strategy, state_file, order, result, written)
       IN  /\ last_order' = Some([order |-> order, result |-> result])
           /\ strategy' = out.strategy
           /\ state_file' = out.state_file
           /\ last_write' = out.write
           /\ pc' = IF result.ok THEN "recv" ELSE "done"
    /\ inflight' = None
    /\ UNCHANGED <<live_mode, config, last_eval, ui, last_ui, last_input>>
    /\ UNCHANGED stream_vars
    /\ UNCHANGED candle_vars
    /\ UNCHANGED precision_vars

\* handle_signal, live mode: place_order returns
OrderReturns(response, written) ==
    /\ pc = "order"
    /\ LET order  == Unwrap(inflight)
           result == place_order(response)
           out    == OrderOutcome(strategy, state_file, order, result, written)
       IN  /\ last_order' = Some([order |-> order, result |-> result])
           /\ strategy' = out.strategy
           /\ state_file' = out.state_file
           /\ last_write' = out.write
    /\ inflight' = None
    /\ pc' = "recv"
    /\ UNCHANGED <<live_mode, config, last_eval, ui, last_ui, last_input>>
    /\ UNCHANGED stream_vars
    /\ UNCHANGED candle_vars
    /\ UNCHANGED precision_vars

\* whether the tick closes the current candle (the ta indicators are called)
ClosesCandle(s, tick) ==
    /\ IsSome(s.current_candle)
    /\ (tick.timestamp \div 60000) * 60000 > Unwrap(s.current_candle).open_time

ReceiveTick ==
    \E tick \in Tickers(strategy) :
        \E ind \in IF ClosesCandle(strategy, tick) THEN IndicatorOutputs
                    ELSE {CHOOSE i \in IndicatorOutputs : TRUE} :
            \E written \in IF on_tick(strategy, tick, ind).signal = Hold
                            THEN {"written"} ELSE WriteOutcomes :
                /\ ProcessTick(tick, ind, written)
                /\ UNCHANGED last_input
                /\ UNCHANGED candle_vars
                /\ UNCHANGED precision_vars

PlaceOrderReturns ==
    \E response \in VenueResponses :
        \E written \in IF place_order(response).ok THEN WriteOutcomes
                        ELSE {"written"} :
            OrderReturns(response, written)

\* The task subscribe_ticker spawns owns the channel's only sender and never
\* returns, so recv never yields None and the loop has no exit.
Next == Startup \/ ReceiveTick \/ PlaceOrderReturns

Spec == Init /\ [][Next]_vars

\* The stream intake with the decision loop reduced to its recv
InitStreamOnly ==
    /\ InitStream
    /\ InitCandleLog
    /\ InitUi
    /\ pc = "start"
    /\ live_mode = TRUE
    /\ config = CHOOSE c \in Configs : c.order_size_usdt = 10
    /\ strategy = RsiBollingerStrategy_new(config.symbol, config.strategy)
    /\ state_file = EngineState(None)
    /\ inflight = None
    /\ last_eval = None
    /\ last_order = None
    /\ last_write = None

SpecStream == InitStreamOnly /\ [][NextStream]_vars

\* a book-ticker event is read
ReadsEvent == \E msg \in BookTickerEvents : Read(msg)

\* The task under the scheduling the runtime gives it, with a venue that is
\* reachable again and again: the sleep ends, connect_async and read.next()
\* return, the decision loop takes what is queued; a connection attempt that
\* is repeated for ever succeeds at some time, and so does the wait for an
\* event.
SpecStreamFair ==
    /\ SpecStream
    /\ WF_vars(Sleep)
    /\ WF_vars(ConnectReturns)
    /\ WF_vars(ReadReturns)
    /\ WF_vars(Recv)
    /\ SF_vars(Connect(TRUE))
    /\ SF_vars(ReadsEvent)

----------------------------------------------------------------------------
(* Order sizing: handle_signal on the Advice of any strategy *)

\* TradingEngine<S> takes whatever Advice S::on_tick returns, at any price.
\* AppConfig values for it: order_size_usdt 10, 1000 and 5 with a lot step of
\* 0.001 and a tick size of 0.1, a lot step of 0.1, and a tick size of 0.5
SizingConfigs ==
    {[symbol |-> Symbol, order_size_usdt |-> c[1], symbol_step_size |-> c[2],
      symbol_tick_size |-> c[3],
      strategy |-> [obi_threshold |-> 200, min_volatility |-> 3]] :
        c \in {<<10, 1, 1>>, <<1000, 1, 1>>, <<5, 1, 1>>, <<10, 100, 1>>,
                <<10, 1, 5>>}}

\* the reference price of the Advice: 109.7, 110.0 and 50,000.0
SizingPrices == {1097, 1100, 500000}

\* the engine at recv after startup, Flat or with a restored Position
InitSizing ==
    /\ InitStream
    /\ InitCandleLog
    /\ InitUi
    /\ pc = "recv"
    /\ live_mode \in BOOLEAN
    /\ config \in SizingConfigs
    /\ state_file \in {EngineState(None),
                        EngineState(Some(Position(Symbol, 100, 1000, 1100)))}
    /\ strategy = load_state(RsiBollingerStrategy_new(config.symbol, config.strategy),
                             state_file)
    /\ inflight = None
    /\ last_eval = None
    /\ last_order = None
    /\ last_write = None

\* run: on_tick has returned Advice(side, price) for a tick, a Buy while Flat
\* and a Sell while a Position is open, and handle_signal processes it up to
\* the place_order call if it makes one
SignalArrives(side, price, written) ==
    LET tick == [symbol |-> Symbol, price |-> price, bid_qty |-> 3, ask_qty |-> 1,
                 timestamp |-> 30000]
        r    == [strategy |-> strategy, signal |-> Advice(side, price)]
        h    == handle_signal(strategy, state_file, config, live_mode,
                              side, price, tick.symbol, written)
    IN  /\ CanReceive
        /\ (side = Buy) <=> ~IsSome(strategy.position)
        /\ strategy' = h.strategy
        /\ state_file' = h.state_file
        /\ inflight' = h.order
        /\ last_write' = h.write
        /\ pc' = IF IsSome(h.order) THEN "order" ELSE "recv"
        /\ last_order' = None
        /\ last_eval' = Some(Evaluation(tick, strategy, r, state_file'))
        /\ ui' = send_ui_events(ui, r.signal).ui
        /\ last_ui' = send_ui_events(ui, r.signal).results
        /\ UNCHANGED <<live_mode, config, last_input>>
        /\ UNCHANGED stream_vars
        /\ UNCHANGED candle_vars
        /\ UNCHANGED precision_vars

ReceiveSignal ==
    \E side \in {Buy, Sell}, price \in SizingPrices, written \in WriteOutcomes :
        SignalArrives(side, price, written)

\* what the venue answers to an order: a failed request, or a response with
\* any order status of the venue
AllVenueResponses ==
    {"ERROR", "NEW", "PARTIALLY_FILLED", "FILLED", "CANCELED", "REJECTED", "EXPIRED"}

PlaceOrderReturnsAny ==
    \E response \in AllVenueResponses :
        \E written \in IF place_order(response).ok THEN WriteOutcomes
                        ELSE {"written"} :
            OrderReturns(response, written)

NextSizing == ReceiveSignal \/ PlaceOrderReturnsAny

SpecSizing == InitSizing /\ [][NextSizing]_vars

----------------------------------------------------------------------------
(* Candle aggregation: on_tick on ticks with non-decreasing timestamps *)

\* ticks the model lets fall into one bucket
MaxBucketTicks == 3

\* candles the model lets close
MaxCandles == 2

\* Ticker.price: 109.5, 109.7 and 110.0
CandlePrices == {1095, 1097, 1100}

\* Ticker.timestamp, never before the tick before it: 20 s later, one minute
\* later, or three minutes later (a gap of several buckets)
CandleTimestamps ==
    IF bucket = <<>> THEN {30000}
    ELSE {bucket[Len(bucket)].timestamp + d : d \in {20000, 60000, 180000}}

CandleTickers ==
    {[symbol |-> Symbol, price |-> p, bid_qty |-> 1, ask_qty |-> 1, timestamp |-> t] :
        p \in CandlePrices, t \in CandleTimestamps}

\* the bucket a timestamp falls into
BucketStart(timestamp) == (timestamp \div 60000) * 60000

InitCandles ==
    /\ InitStream
    /\ InitCandleLog
    /\ InitUi
    /\ pc = "start"
    /\ live_mode = TRUE
    /\ config = CHOOSE c \in Configs : c.order_size_usdt = 10
    /\ strategy = RsiBollingerStrategy_new(config.symbol, config.strategy)
    /\ state_file = EngineState(None)
    /\ inflight = None
    /\ last_eval = None
    /\ last_order = None
    /\ last_write = None

\* run: one tick received and processed, with the record of the ticks of the
\* current bucket and of the candle on_tick hands to close_candle
CandleTick(tick, ind) ==
    /\ ProcessTick(tick, ind, "written")
    /\ UNCHANGED last_input
    /\ IF ClosesCandle(strategy, tick)
       THEN /\ strategy.processed_candles < MaxCandles
            /\ closed' = Some([candle |-> Unwrap(strategy.current_candle),
                               ticks  |-> bucket])
            /\ bucket' = <<tick>>
       ELSE /\ Len(bucket) < MaxBucketTicks
            /\ bucket' = Append(bucket, tick)
            /\ closed' = closed
    /\ UNCHANGED precision_vars

ReceiveCandleTick ==
    \E tick \in CandleTickers, ind \in IndicatorOutputs : CandleTick(tick, ind)

NextCandles == Startup \/ ReceiveCandleTick

SpecCandles == InitCandles /\ [][NextCandles]_vars

----------------------------------------------------------------------------
(* Candle aggregation on ticks in any order of their timestamps *)

\* Ticker.timestamp: 30 s or one minute after the tick before it, or 30 s or
\* one minute before it (a late tick of the same or of an earlier bucket)
LateTimestamps ==
    IF bucket = <<>> THEN {30000}
    ELSE {t \in {bucket[Len(bucket)].timestamp + d :
                    d \in {30000, 60000, -30000, -60000}} : t >= 0}

\* Ticker.price: 109.5 and 110.0
LatePrices == {1095, 1100}

LateTickers ==
    {[symbol |-> Symbol, price |-> p, bid_qty |-> 1, ask_qty |-> 1, timestamp |-> t] :
        p \in LatePrices, t \in LateTimestamps}

\* the indicators return the same values for every closed candle
ReceiveLateTick ==
    \E tick \in LateTickers :
        CandleTick(tick, CHOOSE ind \in IndicatorOutputs : TRUE)

NextLate == Startup \/ ReceiveLateTick

SpecLate == InitCandles /\ [][NextLate]_vars

----------------------------------------------------------------------------
(* utils/precision.rs on its own: normalize_quantity and normalize_price,   *)
(* and the helpers of the same names of connectors/binance.rs              *)

\* largest mantissa of the amounts and prices the functions are applied to
MaxMantissa == 30

\* amounts n and n / 100, with 10.999 and 100.16
PrecisionAmounts ==
    {Dec(n, d) : n \in 0..MaxMantissa, d \in {1, 100}}
        \cup {Dec(10999, 1000), Dec(10016, 100)}

\* prices: the amounts and their negatives
PrecisionPrices == PrecisionAmounts \cup {Dec(-a[1], a[2]) : a \in PrecisionAmounts}

\* positive lot steps and tick sizes: 0.001, 0.1, 1, 0.05 and 0.3
PrecisionSteps == {Dec(1, 1000), Dec(1, 10), Dec(1, 1), Dec(5, 100), Dec(3, 10)}

InitPrecision ==
    /\ InitStream
    /\ InitCandleLog
    /\ InitUi
    /\ pc = "start"
    /\ live_mode = TRUE
    /\ config = CHOOSE c \in Configs : c.order_size_usdt = 10
    /\ strategy = RsiBollingerStrategy_new(config.symbol, config.strategy)
    /\ state_file = EngineState(None)
    /\ inflight = None
    /\ last_eval = None
    /\ last_order = None
    /\ last_write = None

\* normalize_quantity(amount, step_size) is called, and called again on its
\* result
NormalizeQuantityCall(amount, step_size) ==
    /\ calc' = Some([fn     |-> "normalize_quantity",
                     arg    |-> amount,
                     size   |-> step_size,
                     result |-> normalize_quantity(amount, step_size),
                     again  |-> normalize_quantity(
                                   normalize_quantity(amount, step_size), step_size)])
    /\ UNCHANGED engine_vars
    /\ UNCHANGED ui_vars
    /\ UNCHANGED stream_vars
    /\ UNCHANGED candle_vars

\* normalize_price(price, tick_size) is called, and called again on its result
NormalizePriceCall(price, tick_size) ==
    /\ calc' = Some([fn     |-> "normalize_price",
                     arg    |-> price,
                     size   |-> tick_size,
                     result |-> normalize_price(price, tick_size),
                     again  |-> normalize_price(
                                   normalize_price(price, tick_size), tick_size)])
    /\ UNCHANGED engine_vars
    /\ UNCHANGED ui_vars
    /\ UNCHANGED stream_vars
    /\ UNCHANGED candle_vars

\* the client's normalize_quantity(quantity) and the core's
\* normalize_quantity(quantity, step_size) are called with the client's lot step
DelegateQuantityCall(quantity, step_size) ==
    /\ calc' = Some([fn     |-> "BinanceClient::normalize_quantity",
                     arg    |-> quantity,
                     size   |-> step_size,
                     result |-> BinanceClient_normalize_quantity(
                                   [tick_size |-> step_size, step_size |-> step_size],
                                   quantity),
                     core   |-> normalize_quantity(quantity, step_size)])
    /\ UNCHANGED engine_vars
    /\ UNCHANGED ui_vars
    /\ UNCHANGED stream_vars
    /\ UNCHANGED candle_vars

\* the client's normalize_price(price) and the core's
\* normalize_price(price, tick_size) are called with the client's tick size
DelegatePriceCall(price, tick_size) ==
    /\ calc' = Some([fn     |-> "BinanceClient::normalize_price",
                     arg    |-> price,
                     size   |-> tick_size,
                     result |-> BinanceClient_normalize_price(
                                   [tick_size |-> tick_size, step_size |-> tick_size],
                                   price),
                     core   |-> normalize_price(price, tick_size)])
    /\ UNCHANGED engine_vars
    /\ UNCHANGED ui_vars
    /\ UNCHANGED stream_vars
    /\ UNCHANGED candle_vars

\* the lot steps and tick sizes a client holds: the positive ones, and zero
ClientSteps == PrecisionSteps \cup {Dec(0, 1)}

DelegateQuantity ==
    \E quantity \in PrecisionAmounts, step_size \in ClientSteps :
        DelegateQuantityCall(quantity, step_size)

DelegatePrice ==
    \E price \in PrecisionPrices, tick_size \in ClientSteps :
        DelegatePriceCall(price, tick_size)

NormalizeQuantity ==
    \E amount \in PrecisionAmounts, step_size \in PrecisionSteps :
        NormalizeQuantityCall(amount, step_size)

NormalizePrice ==
    \E price \in PrecisionPrices, tick_size \in PrecisionSteps :
        NormalizePriceCall(price, tick_size)

NextPrecision == NormalizeQuantity \/ NormalizePrice \/ DelegateQuantity \/ DelegatePrice

SpecPrecision == InitPrecision /\ [][NextPrecision]_vars

----------------------------------------------------------------------------
(* The decision loop after the warm-up, with the terminal UI at the other   *)
(* end of the UI channel                                                    *)

\* the strategy when the fiftieth candle has closed with an entry set-up and
\* the tick of the next minute has opened a candle
WarmStrategy(cfg) ==
    [RsiBollingerStrategy_new(cfg.symbol, cfg.strategy) EXCEPT
        !.processed_candles = warmup_period,
        !.last_rsi_value    = 25,
        !.last_atr_value    = 5,
        !.last_bb_values    = Some(<<1099, 1110, 1121>>),
        !.current_candle    = Some(CandleBuilder_new(
                                  [symbol |-> cfg.symbol, price |-> 1100,
                                   bid_qty |-> 1, ask_qty |-> 1,
                                   timestamp |-> warmup_period * 60000 + 30000]))]

InitLoop ==
    /\ InitStream
    /\ InitCandleLog
    /\ InitUi
    /\ pc = "recv"
    /\ live_mode \in BOOLEAN
    /\ config \in Configs
    /\ state_file = EngineState(None)
    /\ strategy = load_state(WarmStrategy(config), state_file)
    /\ inflight = None
    /\ last_eval = None
    /\ last_order = None
    /\ last_write = None

\* What went wrong while the tick last taken was processed: place_order
\* returned Err ("order"), handle_signal returned at its notional or quantity
\* guard, that is with no order and no save_state call ("precision"), the
\* state file write failed ("persistence"), a UI event was not delivered
\* ("telemetry")
Failures ==
    (IF IsSome(last_order) /\ ~Unwrap(last_order).result.ok THEN {"order"} ELSE {})
    \cup (IF /\ IsSome(last_eval)
              /\ Unwrap(last_eval).signal.kind = "Advice"
              /\ pc # "order"
              /\ ~IsSome(last_order)
              /\ ~IsSome(last_write)
           THEN {"precision"} ELSE {})
    \cup (IF IsSome(last_write) /\ Unwrap(last_write).outcome # "written"
           THEN {"persistence"} ELSE {})
    \cup (IF \E k \in 1..Len(last_ui) : last_ui[k] # "Ok" THEN {"telemetry"} ELSE {})

\* run: one tick received and processed, with the record of its inputs and of
\* what went wrong with the tick before it
LoopTick(tick, ind, written) ==
    /\ ws # "dropped"
    /\ ProcessTick(tick, ind, written)
    /\ last_input' = Some([tick |-> tick, ind |-> ind, written |-> written,
                           after |-> Failures])
    /\ UNCHANGED candle_vars
    /\ UNCHANGED precision_vars

\* Ticker: a tick of the current candle's minute
LoopTickers(s) ==
    {tick \in Tickers(s) :
        BucketStart(tick.timestamp) = Unwrap(s.current_candle).open_time}

ReceiveLoopTick ==
    \E tick \in LoopTickers(strategy) :
        \E ind \in IF ClosesCandle(strategy, tick) THEN IndicatorOutputs
                    ELSE {CHOOSE i \in IndicatorOutputs : TRUE} :
            \E written \in IF on_tick(strategy, tick, ind).signal = Hold
                            THEN {"written"} ELSE WriteOutcomes :
                LoopTick(tick, ind, written)

\* TuiApp::run: the `while let Ok(event) = receiver.try_recv()` of a frame
\* takes every queued event
TuiDrains ==
    /\ ~ui.closed
    /\ ui.queue # <<>>
    /\ ui' = [ui EXCEPT !.queue = <<>>]
    /\ UNCHANGED <<last_ui, last_input>>
    /\ UNCHANGED engine_vars
    /\ UNCHANGED stream_vars
    /\ UNCHANGED candle_vars
    /\ UNCHANGED precision_vars

\* TuiApp::run: 'q' ends the UI and its receiver is dropped
TuiExits ==
    /\ ~ui.closed
    /\ ui' = [queue |-> <<>>, closed |-> TRUE]
    /\ UNCHANGED <<last_ui, last_input>>
    /\ UNCHANGED engine_vars
    /\ UNCHANGED stream_vars
    /\ UNCHANGED candle_vars
    /\ UNCHANGED precision_vars

\* the tick source ends: the last Sender of the tick channel is dropped
SenderDropped ==
    /\ ws # "dropped"
    /\ ws' = "dropped"
    /\ UNCHANGED <<chan, next_event, last_offer, failures, last_msg>>
    /\ UNCHANGED engine_vars
    /\ UNCHANGED ui_vars
    /\ UNCHANGED candle_vars
    /\ UNCHANGED precision_vars

\* run: recv yields None, the while loop ends and run returns Ok(())
RunReturns ==
    /\ pc = "recv"
    /\ ws = "dropped"
    /\ chan = <<>>
    /\ pc' = "done"
    /\ UNCHANGED <<live_mode, config, strategy, state_file, inflight, last_eval,
                   last_order, last_write>>
    /\ UNCHANGED ui_vars
    /\ UNCHANGED stream_vars
    /\ UNCHANGED candle_vars
    /\ UNCHANGED precision_vars

NextLoop ==
    \/ ReceiveLoopTick
    \/ PlaceOrderReturns
    \/ TuiDrains
    \/ TuiExits
    \/ SenderDropped
    \/ RunReturns

SpecLoop == InitLoop /\ [][NextLoop]_vars

----------------------------------------------------------------------------
(* on_tick on its own after the warm-up, on ticks of any book quantities    *)

\* largest bid_qty and ask_qty of a tick
MaxBookQty == 3

\* ticks of the current candle's minute with bid and ask quantities from 0
ObiTickers(s) ==
    {[symbol |-> Symbol, price |-> p, bid_qty |-> b, ask_qty |-> a,
      timestamp |-> BucketStart(Unwrap(s.current_candle).open_time) + 30000] :
        p \in Prices, b \in 0..MaxBookQty, a \in 0..MaxBookQty}

InitObi ==
    /\ InitStream
    /\ InitCandleLog
    /\ InitUi
    /\ pc = "recv"
    /\ live_mode = TRUE
    /\ config = CHOOSE c \in Configs : c.order_size_usdt = 10
    /\ state_file = EngineState(None)
    /\ strategy = WarmStrategy(config)
    /\ inflight = None
    /\ last_eval = None
    /\ last_order = None
    /\ last_write = None

\* on_tick is called with the tick; the imbalance it computes, the signal it
\* returns and the quantities of the tick before are recorded
ObiTick(tick) ==
    LET r == on_tick(strategy, tick, CHOOSE i \in IndicatorOutputs : TRUE)
    IN  /\ strategy' = r.strategy
        /\ last_eval' = Some(Evaluation(tick, strategy, r, state_file))
        /\ calc' = Some([fn       |-> "obi",
                         obi      |-> Obi(tick),
                         previous |-> IF IsSome(last_eval)
                                      THEN <<Unwrap(last_eval).bid_qty,
                                             Unwrap(last_eval).ask_qty>>
                                      ELSE <<>>])
        /\ UNCHANGED <<pc, live_mode, config, state_file, inflight, last_order,
                       last_write>>
        /\ UNCHANGED ui_vars
        /\ UNCHANGED stream_vars
        /\ UNCHANGED candle_vars

ReceiveObiTick == \E tick \in ObiTickers(strategy) : ObiTick(tick)

NextObi == ReceiveObiTick

SpecObi == InitObi /\ [][NextObi]_vars

----------------------------------------------------------------------------
(* Properties *)

Flat == ~IsSome(strategy.position)

\* the last on_tick call and the place_order call that has just returned
Eval == Unwrap(last_eval)

Returned == Unwrap(last_order)

FilledStatuses == {"FILLED", "PARTIALLY_FILLED"}

Warm == strategy.processed_candles >= warmup_period

\* C1 as stated: after startup, in live and in paper mode, the Position goes
\* from absent to present only in the step in which a place_order call for a
\* Buy returns FILLED or PARTIALLY_FILLED, and from present to absent only in
\* the step in which such a call for a Sell does.
C1_PositionChangesOnlyByFilledOrder ==
    [][pc # "start" =>
        /\ (Flat /\ ~Flat') =>
              /\ pc = "order"
              /\ IsSome(last_order')
              /\ Unwrap(last_order').order.side = Buy
              /\ Unwrap(last_order').result.status \in FilledStatuses
        /\ (~Flat /\ Flat') =>
              /\ pc = "order"
              /\ IsSome(last_order')
              /\ Unwrap(last_order').order.side = Sell
              /\ Unwrap(last_order').result.status \in FilledStatuses]_vars

\* C1 as amended: in live mode the Position is created only by a place_order
\* call for a Buy that returns FILLED or PARTIALLY_FILLED and cleared only by
\* such a call for a Sell; in paper mode no place_order call is made and the
\* Position is created only while handling an Advice(Buy) and cleared only
\* while handling an Advice(Sell).
C1_PositionChangesOnlyByFill ==
    [][pc # "start" =>
        /\ (Flat /\ ~Flat') =>
              IF live_mode
              THEN /\ pc = "order"
                   /\ IsSome(last_order')
                   /\ Unwrap(last_order').order.side = Buy
                   /\ Unwrap(last_order').result.status \in FilledStatuses
              ELSE /\ pc = "recv" /\ pc' = "recv" /\ inflight' = None
                   /\ Unwrap(last_eval').signal = Advice(Buy, Unwrap(last_eval').price)
        /\ (~Flat /\ Flat') =>
              IF live_mode
              THEN /\ pc = "order"
                   /\ IsSome(last_order')
                   /\ Unwrap(last_order').order.side = Sell
                   /\ Unwrap(last_order').result.status \in FilledStatuses
              ELSE /\ pc = "recv" /\ pc' = "recv" /\ inflight' = None
                   /\ Unwrap(last_eval').signal = Advice(Sell, Unwrap(last_eval').price)]_vars

\* a live Buy has just been filled and has created the Position
C1_Witness ==
    /\ live_mode
    /\ IsSome(last_order)
    /\ Returned.order.side = Buy
    /\ Returned.result.status = "PARTIALLY_FILLED"
    /\ ~Flat
    /\ ~IsSome(Eval.after)

\* the tick of the last evaluation, arriving again in the current minute
RetryTick ==
    [symbol |-> Symbol, price |-> Eval.price, bid_qty |-> Eval.bid_qty,
     ask_qty |-> Eval.ask_qty,
     timestamp |-> Unwrap(strategy.current_candle).open_time]

\* C2: when place_order has returned an error or a status other than FILLED
\* or PARTIALLY_FILLED, the Position and the state file are what they were
\* when the order was submitted, the loop is back at recv, and the same tick
\* arriving again yields the same Advice.
C2_FailedOrderLeavesState ==
    (IsSome(last_order) /\ Returned.result.status \notin FilledStatuses) =>
        /\ pc = "recv"
        /\ inflight = None
        /\ strategy.position = Eval.after
        /\ state_file = Eval.file
        /\ Eval.signal = Advice(Returned.order.side, Eval.price)
        /\ \A ind \in IndicatorOutputs :
              on_tick(strategy, RetryTick, ind).signal = Eval.signal

\* a Sell has come back EXPIRED and the Position is still open
C2_Witness ==
    /\ IsSome(last_order)
    /\ Returned.result.status = "EXPIRED"
    /\ Returned.order.side = Sell
    /\ ~Flat

\* C3: while a Position stays open, highest_price never decreases from one
\* step to the next, and the Position stays the same one (same entry_price
\* and quantity).
C3_HighestPriceNeverDecreases ==
    [][(~Flat /\ ~Flat') =>
        /\ Unwrap(strategy'.position).highest_price
              >= Unwrap(strategy.position).highest_price
        /\ Unwrap(strategy'.position).entry_price
              = Unwrap(strategy.position).entry_price
        /\ Unwrap(strategy'.position).quantity
              = Unwrap(strategy.position).quantity]_vars

\* a Position bought in live mode at 109.8, its high since raised to 110.0
\* by on_tick, has just seen a tick at 109.7 and keeps its high
C3_Witness ==
    /\ ~Flat
    /\ IsSome(last_eval)
    /\ Warm
    /\ live_mode
    /\ IsSome(Eval.before)
    /\ Unwrap(Eval.before).entry_price = 1098
    /\ Unwrap(Eval.before).highest_price = 1100
    /\ Eval.price = 1097
    /\ Unwrap(strategy.position).highest_price = 1100

\* C4: while fewer than warmup_period candles have closed, every on_tick
\* call has returned Hold, no order is or was in flight, and the Position is
\* the one the call found.
C4_HoldDuringWarmup ==
    strategy.processed_candles < warmup_period =>
        /\ inflight = None
        /\ last_order = None
        /\ pc \in {"start", "recv"}
        /\ IsSome(last_eval) =>
              /\ Eval.signal = Hold
              /\ Eval.after = Eval.before
              /\ strategy.position = Eval.before

\* one candle short of the warm-up, a tick under the trailing stop of a
\* restored Position has returned Hold
C4_Witness ==
    /\ strategy.processed_candles = warmup_period - 1
    /\ IsSome(last_eval)
    /\ ~Flat
    /\ 1000 * Eval.price < 998 * Unwrap(strategy.position).highest_price
    /\ Eval.signal = Hold

\* C5: the tick channel never holds more than its capacity; a try_send on a
\* full channel leaves the queued tickers as they were (the new ticker is
\* discarded), one on a channel with room appends the ticker at the back,
\* and either way the producer is back at reading the next message.
C5_DropNewestWhenFull ==
    /\ Len(chan) <= ChannelCapacity
    /\ IsSome(last_offer) =>
          LET o == Unwrap(last_offer)
          IN  /\ ws = "read"
              /\ IF Len(o.before) >= ChannelCapacity
                 THEN chan = o.before
                 ELSE chan = Append(o.before, o.ticker)

\* a ticker has just been offered to a full channel
C5_Witness ==
    /\ IsSome(last_offer)
    /\ Len(Unwrap(last_offer).before) = ChannelCapacity
    /\ Unwrap(last_offer).result = "Full"
    /\ chan = Unwrap(last_offer).before
    /\ ws = "read"

\* C6: a tick is evaluated only while no place_order call is in flight; an
\* order is in flight exactly at the loop's order position; a Buy is in
\* flight only while Flat and a Sell only while a Position is open; and when
\* a filled order has returned, the Position already reflects it.
C6_OneTickAtATime ==
    /\ [](/\ (pc = "order") <=> IsSome(inflight)
          /\ IsSome(inflight) => ((Unwrap(inflight).side = Buy) <=> Flat)
          /\ IsSome(inflight) => Unwrap(inflight).side \in {Buy, Sell}
          /\ (IsSome(last_order) /\ Returned.result.status \in FilledStatuses) =>
                /\ pc = "recv"
                /\ (Returned.order.side = Buy) <=> ~Flat
                /\ ~Flat =>
                      /\ Unwrap(strategy.position).quantity = Returned.order.quantity
                      /\ Unwrap(strategy.position).entry_price
                            = Unwrap(Returned.order.price))
    /\ [][(last_eval' # last_eval) => (pc = "recv" /\ inflight = None)]_vars

\* a Buy is in flight while the strategy is Flat
C6_Witness ==
    /\ pc = "order"
    /\ IsSome(inflight)
    /\ Unwrap(inflight).side = Buy
    /\ Flat

\* C7: with the indicators warm and a Position open, a tick whose price is
\* below highest_price * (1 - 0.002), highest_price taken after the tick's
\* ratchet, has returned Advice(Sell, tick.price).
C7_TrailingStopSells ==
    (/\ IsSome(last_eval)
     /\ Warm
     /\ IsSome(Eval.before)
     /\ 1000 * Eval.price < 998 * Unwrap(Eval.after).highest_price)
        => Eval.signal = Advice(Sell, Eval.price)

\* entry 100.0, highest 110.0, tick price 109.7: Advice(Sell, 109.7)
C7_Witness ==
    /\ IsSome(last_eval)
    /\ Warm
    /\ IsSome(Eval.before)
    /\ Unwrap(Eval.before).entry_price = 1000
    /\ Unwrap(Eval.before).highest_price = 1100
    /\ Eval.price = 1097
    /\ Eval.signal = Advice(Sell, 1097)

\* C8: with the indicators warm and a Position open, a tick on which the
\* trailing stop does not fire and whose price is below entry_price * 0.99
\* has returned Advice(Sell, tick.price).
C8_HardStopSells ==
    (/\ IsSome(last_eval)
     /\ Warm
     /\ IsSome(Eval.before)
     /\ ~(1000 * Eval.price < 998 * Unwrap(Eval.after).highest_price)
     /\ 100 * Eval.price < 99 * Unwrap(Eval.after).entry_price)
        => Eval.signal = Advice(Sell, Eval.price)

\* a tick at the Position's high, more than 1% under its entry price
C8_Witness ==
    /\ IsSome(last_eval)
    /\ Warm
    /\ IsSome(Eval.before)
    /\ Eval.price = Unwrap(Eval.after).highest_price
    /\ 100 * Eval.price < 99 * Unwrap(Eval.after).entry_price
    /\ Eval.signal = Advice(Sell, Eval.price)

\* the entry condition of C9 for the last evaluated tick
EntryCondition ==
    /\ Warm
    /\ 1000 * strategy.last_atr_value >= strategy.min_volatility * Eval.price
    /\ Eval.price < Unwrap(strategy.last_bb_values)[1]
    /\ strategy.last_rsi_value < 30
    /\ IF Eval.bid_qty + Eval.ask_qty = 0
       THEN 0 > strategy.obi_threshold
       ELSE 1000 * (Eval.bid_qty - Eval.ask_qty)
               > strategy.obi_threshold * (Eval.bid_qty + Eval.ask_qty)

\* C9: a tick evaluated while Flat has returned Advice(Buy, tick.price) if
\* the warm-up is complete, atr / price >= min_volatility, the price is
\* below the lower Bollinger band, rsi < 30 and obi > obi_threshold, and Hold
\* in every other case.
C9_BuyExactlyOnEntryCondition ==
    (IsSome(last_eval) /\ ~IsSome(Eval.before)) =>
        IF EntryCondition
        THEN Eval.signal = Advice(Buy, Eval.price)
        ELSE Eval.signal = Hold

\* Flat and warm, the rsi is at 50 with everything else in place: Hold
C9_Witness ==
    /\ IsSome(last_eval)
    /\ ~IsSome(Eval.before)
    /\ Warm
    /\ 1000 * strategy.last_atr_value >= strategy.min_volatility * Eval.price
    /\ Eval.price < Unwrap(strategy.last_bb_values)[1]
    /\ strategy.last_rsi_value >= 30
    /\ Eval.bid_qty > Eval.ask_qty
    /\ Eval.signal = Hold

\* C10: on_tick leaves a Flat strategy Flat and an open Position open,
\* whatever it returns, and changes no field of the Position but
\* highest_price.
C10_OnTickKeepsPosition ==
    IsSome(last_eval) =>
        /\ IsSome(Eval.before) <=> IsSome(Eval.after)
        /\ IsSome(Eval.before) =>
              Eval.after = Some([Unwrap(Eval.before) EXCEPT
                                    !.highest_price =
                                        Unwrap(Eval.after).highest_price])
        /\ Eval.signal.kind = "Advice" =>
              ((Eval.signal.side = Buy) <=> ~IsSome(Eval.after))

\* on_tick has returned Advice(Sell, ..) and the Position is still there
C10_Witness ==
    /\ IsSome(last_eval)
    /\ Eval.signal = Advice(Sell, Eval.price)
    /\ IsSome(Eval.after)
    /\ live_mode
    /\ strategy.position = Eval.after

\* the quantity of an order: a raw quantity normalized down to the lot step
LotQuantity(raw_qty) ==
    DecQty(normalize_quantity(raw_qty, QtyDec(config.symbol_step_size)))

\* C11: the order handle_signal has submitted for a Sell has the quantity
\* held in the open Position, normalized down to the lot step, and the order
\* it has submitted for a Buy has order_size_usdt / price, normalized down
\* to the lot step.
C11_ExitQuantityIsHeldQuantity ==
    IsSome(inflight) =>
        LET order == Unwrap(inflight)
        IN  IF order.side = Sell
            THEN /\ ~Flat
                 /\ order.quantity
                       = LotQuantity(QtyDec(Unwrap(strategy.position).quantity))
            ELSE order.quantity
                    = LotQuantity(DecDiv(Dec(config.order_size_usdt, 1),
                                         PriceDec(Eval.price)))

\* the normalized quantity of handle_signal's last call, in thousandths, and
\* 10,000 times its notional value
EvalQuantity(e) == LotQuantity(DecDiv(Dec(config.order_size_usdt, 1), PriceDec(e.price)))

EvalNotional(e) == EvalQuantity(e) * e.price

\* handle_signal has returned without an order and without a change
ReturnedUnchanged ==
    /\ pc' = "recv"
    /\ inflight' = None
    /\ strategy' = strategy
    /\ state_file' = state_file

\* C12: when handle_signal is called with a price for which the quantity
\* normalized down to the lot step is zero, it submits no order, the loop
\* goes on to the next tick, and the Position and the state file stay as
\* they were, in live and in paper mode.
C12_ZeroQuantityNoOrder ==
    [][(pc = "recv" /\ IsSome(last_eval') /\ EvalQuantity(Unwrap(last_eval')) = 0)
          => ReturnedUnchanged]_vars

\* lot step 0.001, order size 10, Advice(Buy, 50,000.0): quantity 0, no
\* order, still Flat, the state file as it was
C12_Witness ==
    /\ IsSome(last_eval)
    /\ config.symbol_step_size = 1
    /\ config.order_size_usdt = 10
    /\ Eval.signal = Advice(Buy, 500000)
    /\ EvalQuantity(Eval) = 0
    /\ pc = "recv"
    /\ inflight = None
    /\ Flat
    /\ state_file = EngineState(None)

\* C13: an order in flight and a Position created in paper mode have
\* quantity * price >= 5.5, and a call of handle_signal for which
\* quantity * price < 5.5 submits no order, goes on to the next tick and
\* leaves the Position and the state file as they were.
C13_MinNotional ==
    /\ [](IsSome(inflight) =>
             /\ Unwrap(inflight).quantity = EvalQuantity(Eval)
             /\ Unwrap(inflight).quantity * Eval.price >= 55000)
    /\ [][(pc = "recv" /\ ~live_mode /\ Flat /\ ~Flat') =>
             /\ Unwrap(strategy'.position).quantity = EvalQuantity(Unwrap(last_eval'))
             /\ Unwrap(strategy'.position).quantity * Unwrap(last_eval').price
                   >= 55000]_vars
    /\ [][(pc = "recv" /\ IsSome(last_eval')
              /\ EvalNotional(Unwrap(last_eval')) < 55000)
             => ReturnedUnchanged]_vars

\* order size 5 at 109.7: a quantity of 0.045 worth 4.9365, and the Sell of
\* an open Position is not submitted
C13_Witness ==
    /\ IsSome(last_eval)
    /\ live_mode
    /\ Eval.signal = Advice(Sell, 1097)
    /\ EvalQuantity(Eval) = 45
    /\ EvalNotional(Eval) < 55000
    /\ pc = "recv"
    /\ inflight = None
    /\ ~Flat

\* C14: the limit price of an order in flight is a multiple of the tick
\* size and lies within half a tick of price * 1.001 for a Buy and of
\* price * 0.999 for a Sell.
C14_LimitPriceWithSlippage ==
    IsSome(inflight) =>
        LET order == Unwrap(inflight)
            limit == Unwrap(order.price)
            raw   == IF order.side = Buy THEN 1001 * Eval.price ELSE 999 * Eval.price
        IN  /\ order.side = Eval.signal.side
            /\ limit % config.symbol_tick_size = 0
            /\ 2 * Abs(1000 * limit - raw) <= 1000 * config.symbol_tick_size

\* lot step 0.001, tick size 0.1, order size 1000, Advice(Buy, 50,000.0): a
\* Buy of 0.020 at 50,050.0 has been submitted
C14_Witness ==
    /\ IsSome(inflight)
    /\ config.symbol_step_size = 1
    /\ config.symbol_tick_size = 1
    /\ config.order_size_usdt = 1000
    /\ Eval.signal = Advice(Buy, 500000)
    /\ Unwrap(inflight).side = Buy
    /\ Unwrap(inflight).quantity = 20
    /\ Unwrap(inflight).price = Some(500500)

\* the request is a LIMIT order with a limit price and time-in-force IOC
LimitIoc(order) ==
    /\ order.type = "LIMIT"
    /\ IsSome(order.price)
    /\ Unwrap(order.price) > 0
    /\ order.timeInForce = Some("IOC")

\* C15: every order the loop has in flight, and every order place_order has
\* returned for, is a LIMIT order with a limit price and time-in-force IOC,
\* for a Buy and for a Sell.
C15_OrdersAreLimitIoc ==
    /\ IsSome(inflight) => LimitIoc(Unwrap(inflight))
    /\ IsSome(last_order) => LimitIoc(Returned.order)

\* the trailing stop's Sell is in flight as a LIMIT IOC order at 109.6
C15_Witness ==
    /\ IsSome(inflight)
    /\ Unwrap(inflight).side = Sell
    /\ Unwrap(inflight).type = "LIMIT"
    /\ Unwrap(inflight).timeInForce = Some("IOC")
    /\ Unwrap(inflight).price = Some(1096)
    /\ Eval.signal = Advice(Sell, 1097)

\* C16: place_order has returned Ok exactly when the venue answered with the
\* status FILLED or PARTIALLY_FILLED, and Err for every other status and for
\* a failed request; after an Ok the Position is the order's outcome, after
\* an Err it is the one the order was submitted with.
C16_FilledOrNotFilled ==
    IsSome(last_order) =>
        /\ Returned.result.ok <=>
              Returned.result.status \in {"FILLED", "PARTIALLY_FILLED"}
        /\ Returned.result.ok => ((Returned.order.side = Buy) <=> ~Flat)
        /\ ~Returned.result.ok => strategy.position = Eval.after

\* a Buy has come back CANCELED: place_order returned Err and the strategy
\* is still Flat
C16_Witness ==
    /\ IsSome(last_order)
    /\ Returned.order.side = Buy
    /\ Returned.result.status = "CANCELED"
    /\ ~Returned.result.ok
    /\ Flat

\* the last close_candle call: the candle and the ticks of its bucket
Closed == Unwrap(closed)

\* C17: the candle handed to close_candle has, for the ticks of its bucket
\* (those whose timestamp falls into the minute starting at open_time), a
\* high that no tick's price exceeds, a low that no tick's price is under,
\* the first tick's price as open and the last tick's price as close.
C17_ClosedCandleBoundsItsTicks ==
    IsSome(closed) =>
        /\ Closed.ticks # <<>>
        /\ \A i \in 1..Len(Closed.ticks) :
              /\ BucketStart(Closed.ticks[i].timestamp) = Closed.candle.open_time
              /\ Closed.candle.high >= Closed.ticks[i].price
              /\ Closed.candle.low <= Closed.ticks[i].price
        /\ Closed.candle.open = Closed.ticks[1].price
        /\ Closed.candle.close = Closed.ticks[Len(Closed.ticks)].price

\* ticks at 109.7, 110.0 and 109.5 in one bucket: the candle closed with
\* open 109.7, high 110.0, low 109.5, close 109.5
C17_Witness ==
    /\ IsSome(closed)
    /\ Len(Closed.ticks) = 3
    /\ Closed.ticks[1].price = 1097
    /\ Closed.ticks[2].price = 1100
    /\ Closed.ticks[3].price = 1095
    /\ Closed.candle.open = 1097
    /\ Closed.candle.high = 1100
    /\ Closed.candle.low = 1095
    /\ Closed.candle.close = 1095

\* C18: a tick whose bucket starts after the current candle's open_time
\* closes that candle, once (processed_candles goes up by one), and starts
\* the candle of its own bucket with open = high = low = close = its price,
\* however many buckets lie between the two; any other tick, and any step
\* that is no tick, leaves processed_candles and the candle's open_time as
\* they were.
C18_OneCloseAtEachBucketBoundary ==
    [][IF bucket' # bucket
       THEN LET tick == bucket'[Len(bucket')]
            IN  IF /\ IsSome(strategy.current_candle)
                   /\ BucketStart(tick.timestamp)
                         > Unwrap(strategy.current_candle).open_time
                THEN /\ strategy'.processed_candles = strategy.processed_candles + 1
                     /\ closed' = Some([candle |-> Unwrap(strategy.current_candle),
                                        ticks  |-> bucket])
                     /\ strategy'.current_candle =
                           Some([open_time |-> BucketStart(tick.timestamp),
                                 open |-> tick.price, high |-> tick.price,
                                 low |-> tick.price, close |-> tick.price])
                ELSE /\ strategy'.processed_candles = strategy.processed_candles
                     /\ closed' = closed
                     /\ IsSome(strategy'.current_candle)
                     /\ Unwrap(strategy'.current_candle).open_time =
                           IF IsSome(strategy.current_candle)
                           THEN Unwrap(strategy.current_candle).open_time
                           ELSE BucketStart(tick.timestamp)
       ELSE /\ strategy'.processed_candles = strategy.processed_candles
            /\ strategy'.current_candle = strategy.current_candle]_vars

\* a tick three minutes after the only tick of the first bucket: one candle
\* closed, and the current candle is the tick's own bucket at its price
C18_Witness ==
    /\ IsSome(closed)
    /\ strategy.processed_candles = 1
    /\ Len(Closed.ticks) = 1
    /\ Len(bucket) = 1
    /\ Unwrap(strategy.current_candle).open_time
          = Closed.candle.open_time + 180000
    /\ Unwrap(strategy.current_candle).open_time = BucketStart(bucket[1].timestamp)
    /\ Unwrap(strategy.current_candle).open = bucket[1].price
    /\ Unwrap(strategy.current_candle).high = bucket[1].price
    /\ Unwrap(strategy.current_candle).low = bucket[1].price
    /\ Unwrap(strategy.current_candle).close = bucket[1].price

\* the last normalize_quantity or normalize_price call
Calc == Unwrap(calc)

\* a Decimal that is an integer multiple of a positive Decimal
IsMultipleOf(a, size) ==
    LET q == DecDiv(a, size) IN q[1] % q[2] = 0

\* C19: for a non-negative amount and a positive step, normalize_quantity
\* applied to its own result returns that result, the result is not greater
\* than the amount, and the result is an integer multiple of the step.
C19_NormalizeQuantityRoundsDown ==
    (IsSome(calc) /\ Calc.fn = "normalize_quantity") =>
        /\ DecEq(Calc.again, Calc.result)
        /\ ~DecLt(Calc.arg, Calc.result)
        /\ IsMultipleOf(Calc.result, Calc.size)

\* normalize_quantity(10.999, 1) = 10, and 10 again
C19_Witness ==
    /\ IsSome(calc)
    /\ Calc.fn = "normalize_quantity"
    /\ Calc.arg = Dec(10999, 1000)
    /\ Calc.size = Dec(1, 1)
    /\ DecEq(Calc.result, Dec(10, 1))
    /\ DecEq(Calc.again, Dec(10, 1))

\* C20: for a price and a positive tick size, the result of normalize_price
\* is an integer multiple of the tick size and at most half a tick away from
\* the price; a price exactly half-way between two multiples goes to the
\* even multiple, whichever side that is on.
C20_NormalizePriceRoundsToNearest ==
    (IsSome(calc) /\ Calc.fn = "normalize_price") =>
        LET diff == DecSub(Calc.result, Calc.arg)
            dist == Dec(Abs(diff[1]), diff[2])
            half == DecDiv(Calc.size, Dec(2, 1))
            mult == DecDiv(Calc.result, Calc.size)
        IN  /\ IsMultipleOf(Calc.result, Calc.size)
            /\ ~DecLt(half, dist)
            /\ DecEq(dist, half) => (mult[1] \div mult[2]) % 2 = 0

\* normalize_price(100.16, 0.1) = 100.2
C20_Witness ==
    /\ IsSome(calc)
    /\ Calc.fn = "normalize_price"
    /\ Calc.arg = Dec(10016, 100)
    /\ Calc.size = Dec(1, 10)
    /\ DecEq(Calc.result, Dec(1002, 10))

----------------------------------------------------------------------------
\* C21: the stream task never terminates: a failed connection attempt, a read
\* error and the end of the stream each take it to the 5 s sleep and from
\* there to a new connection attempt, however often that has happened; with
\* the venue reachable again, a tick is produced after every such failure
\* (as long as the venue has events left to deliver).
C21_StreamTaskReconnectsForever ==
    /\ [](ws \in {"connect", "read", "sleep"})
    /\ [][/\ (failures' # failures) => ws' = "sleep"
          /\ (ws = "sleep" /\ ws' # ws) => ws' = "connect"
          /\ (ws = "connect" /\ ws' # ws) => ws' \in {"read", "sleep"}]_vars
    /\ (ws = "sleep") ~> (ws = "connect")
    /\ (ws = "sleep" /\ next_event <= MaxEvents) ~> IsSome(last_offer)

\* a tick is produced by a task that has come through a failed connection
\* attempt, a read error and the end of a stream
C21_Witness ==
    /\ failures = {"connect", "read_error", "stream_end"}
    /\ ws = "read"
    /\ IsSome(last_offer)

----------------------------------------------------------------------------
\* C22: a message that is not text, or whose text is no book-ticker event,
\* produces no tick and leaves the task reading the same connection; an event
\* read on a connection after such a message still produces its tick.
C22_MalformedMessageIsSkipped ==
    [][/\ (ws = "read" /\ IsSome(last_msg') /\ last_msg' # last_msg
           /\ Unwrap(last_msg').kind \in Skipped)
          => /\ ws' = "read"
             /\ chan' = chan
             /\ next_event' = next_event
             /\ last_offer' = None
             /\ failures' = failures
       /\ (ws = "read" /\ IsSome(last_msg') /\ last_msg' # last_msg
           /\ Unwrap(last_msg').kind = "event" /\ Unwrap(last_msg').skipped)
          => /\ ws' = "read"
             /\ IsSome(last_offer')
             /\ Unwrap(last_offer').ticker.timestamp = next_event
             /\ Unwrap(last_offer').result = "Ok"
                    => chan' = Append(chan, Unwrap(last_offer').ticker)]_vars

\* an event was read after a skipped message of the same connection and its
\* tick is in the channel
C22_Witness ==
    /\ IsSome(last_msg)
    /\ Unwrap(last_msg).kind = "event"
    /\ Unwrap(last_msg).skipped
    /\ IsSome(last_offer)
    /\ Unwrap(last_offer).result = "Ok"
    /\ chan # <<>>

----------------------------------------------------------------------------
\* C23: when run has gone through load_state and no tick has been processed,
\* the loop is at its recv whatever the state file was, the strategy is Flat
\* if the file is absent or cannot be parsed, and holds the file's
\* active_position if the file is a valid record.
C23_LoadStateRestoresPosition ==
    (pc # "start" /\ ~IsSome(last_eval))
        => /\ pc = "recv"
           /\ state_file.kind \in {"absent", "malformed"} => Flat
           /\ state_file.kind = "valid"
                  => strategy.position = state_file.active_position

\* started from a valid record with an open position, before the first tick
C23_Witness ==
    /\ pc = "recv"
    /\ ~IsSome(last_eval)
    /\ state_file.kind = "valid"
    /\ IsSome(state_file.active_position)
    /\ strategy.position = state_file.active_position

----------------------------------------------------------------------------
\* the save_state call of the step
Written == Unwrap(last_write)

\* C24 as stated: a step whose state file write fails leaves the file with the
\* content it had, the strategy with the position that was to be saved, and
\* the loop at its recv.
C24_FailedWriteKeepsFile ==
    [][(IsSome(last_write') /\ Unwrap(last_write').outcome # "written")
          => /\ state_file' = state_file
             /\ strategy'.position = Unwrap(last_write').position
             /\ pc' = "recv"]_vars

\* C24, amended: a step whose state file write fails leaves the strategy with
\* the position that was to be saved and the loop at its recv; the file keeps
\* the content it had if the write failed before the file was opened, and is
\* left truncated, a record that does not parse, if it failed after that.
C24_FailedWriteKeepsOrTruncatesFile ==
    [][(IsSome(last_write') /\ Unwrap(last_write').outcome # "written")
          => /\ Unwrap(last_write').outcome = "untouched" => state_file' = state_file
             /\ Unwrap(last_write').outcome = "truncated" => state_file'.kind = "malformed"
             /\ strategy'.position = Unwrap(last_write').position
             /\ pc' = "recv"]_vars

\* a fill was applied to the strategy while its write failed: the file still
\* holds the record from before the fill
C24_Witness ==
    /\ IsSome(last_write)
    /\ Written.outcome = "untouched"
    /\ IsSome(last_order)
    /\ Returned.result.ok
    /\ pc = "recv"
    /\ strategy.position = Written.position
    /\ state_file.kind = "valid"
    /\ state_file.active_position # strategy.position

----------------------------------------------------------------------------
\* a step of the loop that takes a tick
TickStep ==
    /\ pc = "recv"
    /\ pc' # "done"
    /\ ws' = ws
    /\ IsSome(last_input')
    /\ ~(ui' # ui /\ ui'.queue = <<>>)

\* the events of a tick whose try_send returned Ok
Delivered(results) ==
    LET events == <<"TickerUpdate", "Signal">>
        Pick[k \in 0..Len(results)] ==
            IF k = 0 THEN <<>>
            ELSE IF results[k] = "Ok" THEN Append(Pick[k - 1], events[k])
            ELSE Pick[k - 1]
    IN  Pick[Len(results)]

\* C25: a tick step never waits for or fails on the UI channel: an event is
\* queued only if the channel is open and not full, is dropped with result
\* Full when it is full and with result Closed when it is closed, and the
\* signal, the strategy, the state file and the order of the step are what
\* on_tick and handle_signal give for the tick whatever the channel did.
C25_TelemetryNeverBlocksOrFails ==
    [][TickStep =>
        LET i == Unwrap(last_input')
            r == on_tick(strategy, i.tick, i.ind)
        IN  /\ pc' \in {"recv", "order"}
            /\ Len(last_ui') = IF r.signal.kind = "Advice" THEN 2 ELSE 1
            /\ ui'.closed = ui.closed
            /\ ui'.queue = ui.queue \o Delivered(last_ui')
            /\ Len(ui'.queue) <= UiCapacity
            /\ \A k \in 1..Len(last_ui') :
                  /\ last_ui'[k] = "Closed" <=> ui.closed
                  /\ last_ui'[k] = "Full"
                        => Len(ui.queue \o Delivered(SubSeq(last_ui', 1, k - 1))) = UiCapacity
            /\ Unwrap(last_eval').signal = r.signal
            /\ IF r.signal.kind = "Advice"
               THEN LET h == handle_signal(r.strategy, state_file, config, live_mode,
                                           r.signal.side, r.signal.price,
                                           i.tick.symbol, i.written)
                    IN  /\ strategy' = h.strategy
                        /\ state_file' = h.state_file
                        /\ inflight' = h.order
               ELSE /\ strategy' = r.strategy
                    /\ inflight' = None
                    /\ state_file' = IF r.signal = StateChanged
                                     THEN save_state(state_file, r.strategy.position,
                                                     i.written)
                                     ELSE state_file]_vars

\* the Signal event of an Advice was dropped by a full UI channel and the
\* order of the Advice is submitted
C25_Witness ==
    /\ IsSome(last_input)
    /\ Len(last_ui) = 2
    /\ last_ui[2] = "Full"
    /\ Len(ui.queue) = UiCapacity
    /\ pc = "order"
    /\ IsSome(inflight)

----------------------------------------------------------------------------
\* C26: run returns only from its recv and only when the tick channel is
\* closed and empty; a failed place_order, an order skipped by the notional
\* or quantity guard, a failed state file write and an undelivered UI event
\* all leave run at its recv (or at the place_order call of the tick, which
\* returns to the recv), and the tick that run takes next is evaluated by
\* on_tick like any other.
C26_RunEndsOnlyWhenChannelCloses ==
    /\ [](pc \in {"recv", "order", "done"})
    /\ [][(pc' = "done" /\ pc # "done")
             => (pc = "recv" /\ ws = "dropped" /\ chan = <<>>)]_vars
    /\ []((IsSome(last_eval) /\ Eval.signal.kind = "Advice")
              => ("precision" \in Failures
                    <=> Sizing(config, Eval.signal.side, Eval.signal.price).skipped))
    /\ [][(pc = "order" /\ pc' # pc) => pc' = "recv"]_vars
    /\ [][(Failures' # {} /\ Failures' # Failures) => pc' \in {"recv", "order"}]_vars
    /\ [][(TickStep /\ Failures # {})
             => /\ Unwrap(last_input').after = Failures
                /\ Unwrap(last_eval').signal =
                       on_tick(strategy, Unwrap(last_input').tick,
                               Unwrap(last_input').ind).signal]_vars

\* a tick is evaluated, and leads to an order, right after a tick whose
\* order the venue did not fill and whose UI event was dropped
C26_Witness ==
    /\ IsSome(last_input)
    /\ Unwrap(last_input).after = {"order", "telemetry"}
    /\ Eval.signal.kind = "Advice"
    /\ pc = "order"

----------------------------------------------------------------------------
\* the larger of two prices
Max(a, b) == IF a > b THEN a ELSE b

\* C27 as stated: after every on_tick call that found a Position open, the
\* Position's highest_price is the larger of its highest_price before the
\* call and the tick's price.
C27_RatchetOnEveryTick ==
    (IsSome(last_eval) /\ IsSome(Eval.before))
        => /\ IsSome(Eval.after)
           /\ Unwrap(Eval.after).highest_price =
                  Max(Unwrap(Eval.before).highest_price, Eval.price)

----------------------------------------------------------------------------
\* whether a stop fires for the tick of the last on_tick call, on the
\* Position as the call left it
StopFires ==
    LET pos == Unwrap(Eval.after)
    IN  \/ DecLt(PriceDec(Eval.price),
                 DecMul(PriceDec(pos.highest_price), DecSub(Dec(1, 1), trailing_callback)))
        \/ DecLt(PriceDec(Eval.price), DecMul(PriceDec(pos.entry_price), Dec(99, 100)))

\* C28: on_tick returns StateChanged exactly when it found a Position open,
\* raised its highest_price and neither stop fires; the loop then calls
\* save_state with the strategy's Position, so that the state file holds it
\* (if the write succeeds) when the loop is back at its recv.
C28_StateChangedIsPersisted ==
    IsSome(last_eval)
        => /\ Eval.signal = StateChanged
                <=> /\ IsSome(Eval.before)
                    /\ IsSome(Eval.after)
                    /\ Unwrap(Eval.after).highest_price
                          > Unwrap(Eval.before).highest_price
                    /\ ~StopFires
           /\ Eval.signal = StateChanged
                => /\ pc = "recv"
                   /\ strategy.position = Eval.after
                   /\ IsSome(last_write)
                   /\ Written.position = strategy.position
                   /\ Written.outcome = "written"
                         => state_file = EngineState(strategy.position)

\* a tick raised highest_price and the state file holds the new value
C28_Witness ==
    /\ IsSome(last_eval)
    /\ Eval.signal = StateChanged
    /\ Unwrap(Eval.after).highest_price = Eval.price
    /\ Eval.price > Unwrap(Eval.before).highest_price
    /\ pc = "recv"
    /\ state_file = EngineState(strategy.position)

----------------------------------------------------------------------------
(* C29 *)

\* the save_state call of the step failed
FailedWrite == IsSome(last_write) /\ Written.outcome # "written"

\* the Position the state file has to hold: the strategy's, and the one
\* the tick started with while place_order is awaited (nothing is saved
\* before place_order returns)
Mirrored == IF pc = "order" THEN Eval.before ELSE strategy.position

\* the state file holds the in-memory Position, field by field
Exact == state_file.kind = "valid" /\ state_file.active_position = Mirrored

\* the state file holds the in-memory Position, but for a highest_price
\* that may be lower in the file
UpToHigh ==
    /\ state_file.kind = "valid"
    /\ (state_file.active_position = None) = (strategy.position = None)
    /\ IsSome(strategy.position) =>
           LET stored == Unwrap(state_file.active_position)
               held   == Unwrap(strategy.position)
           IN  /\ stored.symbol = held.symbol
               /\ stored.quantity = held.quantity
               /\ stored.entry_price = held.entry_price
               /\ stored.highest_price <= held.highest_price

\* the last tick raised highest_price and returned an exit Advice
RatchetedExit ==
    /\ IsSome(last_eval)
    /\ IsSome(Eval.before)
    /\ IsSome(Eval.after)
    /\ Unwrap(Eval.before).highest_price < Unwrap(Eval.after).highest_price
    /\ Eval.signal = Advice(Sell, Eval.price)

----------------------------------------------------------------------------
(* C30 *)

\* C30: for every input and every positive lot step and tick size, the
\* client's normalize_quantity and normalize_price return the values of the
\* core's normalize_quantity and normalize_price.
C30_ClientHelpersEqualCoreSteps ==
    (/\ IsSome(calc)
     /\ Calc.fn \in {"BinanceClient::normalize_quantity", "BinanceClient::normalize_price"}
     /\ ~DecIsZero(Calc.size))
        => DecEq(Calc.result, Calc.core)

\* the half of C30 on quantities
ClientQuantityEqualsCoreStep ==
    (/\ IsSome(calc)
     /\ Calc.fn = "BinanceClient::normalize_quantity"
     /\ ~DecIsZero(Calc.size))
        => DecEq(Calc.result, Calc.core)

----------------------------------------------------------------------------
(* C31 *)

\* C31: the imbalance on_tick computes is (bid_qty - ask_qty) / (bid_qty +
\* ask_qty) of the tick it was called with, 0 when both quantities are 0,
\* and between -1 and 1; the entry decision follows the quantities of that
\* tick and not those of the tick before.
C31_ObiOfCurrentTick ==
    (IsSome(calc) /\ Calc.fn = "obi") =>
        LET total_qty == Eval.bid_qty + Eval.ask_qty
        IN  /\ total_qty = 0 => DecEq(Calc.obi, Dec(0, 1))
            /\ total_qty # 0 =>
                   DecEq(DecMul(Calc.obi, Dec(total_qty, 1)),
                         Dec(Eval.bid_qty - Eval.ask_qty, 1))
            /\ ~DecLt(Calc.obi, Dec(-1, 1))
            /\ ~DecLt(Dec(1, 1), Calc.obi)
            /\ (Eval.price < Unwrap(strategy.last_bb_values)[1]) =>
                   ((Eval.signal = Advice(Buy, Eval.price)) <=>
                        DecLt(Dec(strategy.obi_threshold, 1000), Calc.obi))

\* a tick with an empty book after a tick with an imbalance of 1: the
\* imbalance is 0 and no entry is advised
C31_Witness ==
    /\ IsSome(calc)
    /\ Calc.fn = "obi"
    /\ Eval.bid_qty = 0
    /\ Eval.ask_qty = 0
    /\ Calc.previous = <<MaxBookQty, 0>>
    /\ DecEq(Calc.obi, Dec(0, 1))
    /\ Eval.price < Unwrap(strategy.last_bb_values)[1]
    /\ Eval.signal = Hold

----------------------------------------------------------------------------
(* C32 *)

\* C32: in paper mode no place_order call is ever made or awaited, and a
\* Position is opened or closed in the step of the tick, in the strategy and
\* by the save_state call of that step.
C32_PaperModeNeverOrders ==
    /\ [](~live_mode => (pc # "order" /\ inflight = None /\ last_order = None))
    /\ [][(~live_mode /\ pc # "start" /\ Flat # Flat') =>
             /\ pc = "recv"
             /\ pc' = "recv"
             /\ inflight' = None
             /\ last_order' = None
             /\ IsSome(last_write')
             /\ Unwrap(last_write').position = strategy'.position]_vars

\* a paper Buy has opened a Position and written it, with no order made
C32_Witness ==
    /\ ~live_mode
    /\ pc = "recv"
    /\ IsSome(last_eval)
    /\ Eval.signal = Advice(Buy, Eval.price)
    /\ ~IsSome(Eval.after)
    /\ ~Flat
    /\ IsSome(last_write)
    /\ Written.position = strategy.position
    /\ last_order = None

----------------------------------------------------------------------------
(* C33 *)

\* the state is the one the step of a tick has left, an exit has fired on
\* that tick: on_tick found a Position and returned Advice(Sell, price)
ExitFired ==
    /\ pc # "start"
    /\ IsSome(last_eval)
    /\ last_order = None
    /\ IsSome(Eval.before)
    /\ Eval.signal = Advice(Sell, Eval.price)

\* the order handle_signal submits for the exit of the last tick
ExitOrder ==
    LET sz == Sizing(config, Sell, Eval.price)
    IN  OrderRequest(Symbol, Sell, sz.quantity, Some(sz.final_price))

\* place_order has returned Ok for the Sell order that was awaited
SellFilled ==
    /\ pc = "order"
    /\ Unwrap(inflight).side = Sell
    /\ IsSome(last_order')
    /\ Unwrap(last_order').result.ok

----------------------------------------------------------------------------
(* C34 *)

\* the last on_tick call raised the highest_price of the Position
Ratcheted ==
    /\ IsSome(last_eval)
    /\ IsSome(Eval.before)
    /\ IsSome(Eval.after)
    /\ Unwrap(Eval.after).highest_price > Unwrap(Eval.before).highest_price

\* C34: started Flat with an empty state file, the engine opens a Position
\* with highest_price = entry_price, in live and in paper mode, and an open
\* Position has highest_price >= entry_price; a tick that raises
\* highest_price returns StateChanged (no exit fires on it), and the step of
\* that tick calls save_state with the raised Position, which is in the
\* state file if the write succeeds.
C34_HighNeverBelowEntry ==
    /\ [](~Flat => Unwrap(strategy.position).highest_price
                       >= Unwrap(strategy.position).entry_price)
    /\ [][(Flat /\ ~Flat') =>
             Unwrap(strategy'.position).highest_price
                 = Unwrap(strategy'.position).entry_price]_vars
    /\ [](Ratcheted =>
             /\ Eval.signal = StateChanged
             /\ strategy.position = Eval.after
             /\ IsSome(last_write)
             /\ Written.position = Eval.after
             /\ (Written.outcome = "written") => state_file = EngineState(Eval.after))

\* a live Buy at 109.7 was filled at its limit price of 109.8, and the tick
\* at 110.0 has raised highest_price: StateChanged, and the file has it
C34_Witness ==
    /\ live_mode
    /\ Ratcheted
    /\ Unwrap(Eval.before).entry_price = 1098
    /\ Unwrap(Eval.before).highest_price = 1098
    /\ Unwrap(Eval.after).highest_price = 1100
    /\ Eval.signal = StateChanged
    /\ state_file = EngineState(Eval.after)

----------------------------------------------------------------------------
(* C35 *)

\* C35: the current candle's open_time never decreases, and a tick whose
\* bucket starts at or before the current candle's open_time closes no
\* candle: it raises the high or lowers the low to its price where it is
\* beyond them, becomes the close, and leaves open and open_time.
C35_LateTickIsMerged ==
    [][(bucket' # bucket /\ IsSome(strategy.current_candle)) =>
          LET tick   == bucket'[Len(bucket')]
              candle == Unwrap(strategy.current_candle)
              after  == Unwrap(strategy'.current_candle)
          IN  /\ IsSome(strategy'.current_candle)
              /\ after.open_time >= candle.open_time
              /\ BucketStart(tick.timestamp) <= candle.open_time =>
                     /\ strategy'.processed_candles = strategy.processed_candles
                     /\ closed' = closed
                     /\ after.open_time = candle.open_time
                     /\ after.open = candle.open
                     /\ after.high = Max(candle.high, tick.price)
                     /\ after.low = -Max(-candle.low, -tick.price)
                     /\ after.close = tick.price]_vars

\* after a tick at 01:30 opened the candle of the second minute at 110.0, a
\* tick stamped 00:30 at 109.5 is merged into it: low and close 109.5
C35_Witness ==
    /\ Len(bucket) = 2
    /\ bucket[1].timestamp = 90000
    /\ bucket[1].price = 1100
    /\ bucket[2].timestamp = 30000
    /\ bucket[2].price = 1095
    /\ strategy.processed_candles = 1
    /\ strategy.current_candle =
           Some([open_time |-> 60000, open |-> 1100, high |-> 1100,
                 low |-> 1095, close |-> 1095])

----------------------------------------------------------------------------
(* C36 *)

\* C36: when place_order returns for a response with status FILLED or
\* PARTIALLY_FILLED, the one as the other, a Buy leaves the Position with
\* the quantity of the order and its limit price as entry_price, a Sell
\* leaves no Position, and save_state is called with what is left, which
\* is in the state file if the write succeeds.
C36_PartialFillIsAFill ==
    [][(/\ pc = "order"
        /\ IsSome(last_order')
        /\ Unwrap(last_order').result.status \in FilledStatuses) =>
          LET order == Unwrap(inflight)
              left  == IF order.side = Buy
                       THEN Some([symbol |-> order.symbol,
                                  quantity |-> order.quantity,
                                  entry_price |-> Unwrap(order.price),
                                  unrealized_pnl |-> 0,
                                  highest_price |-> Unwrap(order.price)])
                       ELSE None
          IN  /\ Unwrap(last_order').result.ok
              /\ Unwrap(last_order').order = order
              /\ strategy'.position = left
              /\ IsSome(last_write')
              /\ Unwrap(last_write').position = left
              /\ (Unwrap(last_write').outcome = "written")
                     => state_file' = EngineState(left)]_vars

\* a Sell for the restored Position came back PARTIALLY_FILLED: no Position
\* is left and the state file holds null
C36_Witness ==
    /\ IsSome(last_order)
    /\ Returned.order.side = Sell
    /\ Returned.result.status = "PARTIALLY_FILLED"
    /\ IsSome(Eval.before)
    /\ Flat
    /\ state_file = EngineState(None)

====
